---- MODULE Spec2Model ----
(***************************************************************************)
(* State-machine model of scripts/eda/eda_finance.py: the Hill tail-index  *)
(* estimator, the per-series diagnostics and the orchestration in main.    *)
(*                                                                         *)
(* Floating-point values are records [k, v]: k = "nan", k = "inf" with     *)
(* v = +1 / -1, or k = "fin" with v the value in thousandths.  The sign of *)
(* a zero is not kept.  Comparisons with NaN are false, as in IEEE 754.    *)
(*                                                                         *)
(* A series handed to hill_tail_index is run-length encoded: a sequence of *)
(* runs [v |-> value, k |-> number of consecutive observations equal to    *)
(* v], in the order of the observations.                                   *)
(***************************************************************************)
EXTENDS Integers, Sequences, FiniteSets, TLC

VARIABLES
    hpc,        \* hill_tail_index: "build" while the series is given, "done" after the call
    hSeries,    \* hill_tail_index: the series argument (run-length encoded)
    hQ,         \* hill_tail_index: the threshold_quantile argument <<num, den>>
    hResult,    \* hill_tail_index: the returned float
    spc,        \* stationarity_tests: "loop" inside the for loop, "done" once returned
    sAlpha,     \* stationarity_tests: the alpha argument
    sCols,      \* stationarity_tests: data.columns
    sLib,       \* stationarity_tests: what adfuller and kpss did for each column so far
    sRows,      \* stationarity_tests: the list results
    fpc,        \* stylized_facts: "loop" inside the for loop, "done" returned, "raised"
    fCfg,       \* stylized_facts: the keys of config.tests and config.tails it reads
    fCols,      \* stylized_facts: returns.columns
    fSeries,    \* stylized_facts: returns[col].dropna() of each column
    fLib,       \* stylized_facts: what the library routines did for each column so far
    fRows,      \* stylized_facts: the list results
    rpc,        \* compute_returns: "build" while the panel is given, "done" after the
                \* call, "summarized" or "raised" after summary_statistics
    rPrices,    \* compute_returns: the prices argument, a sequence of rows of floats
    rType,      \* compute_returns: the return_type argument
    rReturns,   \* compute_returns: the returned panel
    rSummary,   \* the table summary_statistics returns for that panel
    mpc,        \* main: the statement about to run, "except", or "exited"
    mError,     \* main: the exception caught by the except clause
    mCfgFile,   \* main: the file at args.config
    mDataFile,  \* main: the file at config.input_csv
    mConfig,    \* main: the EDAConfig loaded
    mDirs,      \* main: the output directories created so far
    mPrices,    \* main: the price panel
    mReturns,   \* main: the return panel (its rows)
    mTables,    \* main: summary_stats, stationarity, stylized_facts_df
    mFiles,     \* main: the files written so far, <<directory, name, column>>
    mPrinted,   \* main: the messages printed so far
    mExit,      \* main: the exit status of the process, -1 while it runs
    gpc,        \* generate_report: the section being written, "done" or "raised"
    gTables,    \* generate_report: summary_stats, stationarity, stylized_facts
    gRow,       \* generate_report: the rows of the current loop written so far
    gLines,     \* generate_report: the table rows written to the report so far
    npc,        \* rename_nf_residuals.main: its position
    nDirs,      \* rename_nf_residuals.main: the directories that exist
    nSource,    \* rename_nf_residuals.main: the files in nf_generated_residuals
    nTarget,    \* rename_nf_residuals.main: the files in data/residuals_by_model
    nTodo,      \* rename_nf_residuals.main: the files the loop has yet to visit
    nMoved,     \* rename_nf_residuals.main: moved_files
    nReported   \* rename_nf_residuals.main: the count printed, -1 before

hvars == <<hpc, hSeries, hQ, hResult>>
svars == <<spc, sAlpha, sCols, sLib, sRows>>
fvars == <<fpc, fCfg, fCols, fSeries, fLib, fRows>>

rvars == <<rpc, rPrices, rType, rReturns, rSummary>>

mvars == <<mpc, mError, mCfgFile, mDataFile, mConfig, mDirs, mPrices, mReturns,
           mTables, mFiles, mPrinted, mExit>>

gvars == <<gpc, gTables, gRow, gLines>>

nvars == <<npc, nDirs, nSource, nTarget, nTodo, nMoved, nReported>>

vars == <<hvars, svars, fvars, rvars, mvars, gvars, nvars>>

---------------------------------------------------------------------------
(* Bounds of the model *)

\* Longest series given to hill_tail_index (observations).
MaxLen == 12
\* Most runs of equal consecutive observations in such a series.
MaxRuns == 3

\* Most files in the source directory of rename_nf_residuals.
MaxFiles == 3
\* Most rows of a table given to generate_report on its own.
MaxReportRows == 2
\* Most columns of a panel handed to an analyzer.
MaxCols == 2

\* Column names, in panel order.
ColNames == <<"A", "B", "C", "D">>

\* Most rows of a price panel handed to compute_returns.
MaxRows == 3
\* Rows of the data file in a run of main.
MaxTableRows == 2

\* An observation x so large that x / 1 is finite but x / y, for y the
\* size of the unit the observations are counted in, is beyond the largest
\* float (1e200 units of 1e-200), and y / x is below the smallest.
Huge == 1000000
\* Values of the observations of a series.
Values == (-2 .. 2) \cup {Huge}
\* threshold_quantile arguments, as <<numerator, denominator>>: 0, 0.05, 0.95.
Quantiles == {<<0, 20>>, <<1, 20>>, <<19, 20>>}

---------------------------------------------------------------------------
(* Floating point *)

NaN == [k |-> "nan", v |-> 0]
PInf == [k |-> "inf", v |-> 1]
NInf == [k |-> "inf", v |-> -1]
Fin(x) == [k |-> "fin", v |-> x]

IsNaN(f) == f.k = "nan"
IsFinite(f) == f.k = "fin"

\* a < b and a <= b on floats; false as soon as one side is NaN.
FLess(a, b) ==
    /\ ~IsNaN(a)
    /\ ~IsNaN(b)
    /\ IF a.k = "inf" THEN a.v < 0 /\ b # a
       ELSE IF b.k = "inf" THEN b.v > 0
       ELSE a.v < b.v
FLessEq(a, b) == ~IsNaN(a) /\ ~IsNaN(b) /\ (a = b \/ FLess(a, b))

\* round(1000 * ln n) for n = 1 .. 60
LnTable ==
    <<0, 693, 1099, 1386, 1609, 1792, 1946, 2079, 2197, 2303,
      2398, 2485, 2565, 2639, 2708, 2773, 2833, 2890, 2944, 2996,
      3045, 3091, 3135, 3178, 3219, 3258, 3296, 3332, 3367, 3401,
      3434, 3466, 3497, 3526, 3555, 3584, 3611, 3638, 3664, 3689,
      3714, 3738, 3761, 3784, 3807, 3829, 3850, 3871, 3892, 3912,
      3932, 3951, 3970, 3989, 4007, 4025, 4043, 4060, 4078, 4094>>

Abs(n) == IF n < 0 THEN -n ELSE n

RECURSIVE GCD(_, _)
GCD(a, b) == IF b = 0 THEN a ELSE GCD(b, a % b)

\* The multiple of Huge nearest to n: what is left of n in a float once
\* it holds a huge term.
HugePart(n) == (n + Huge \div 2) \div Huge

\* np.log(a / b) for integers a, b, the division done in floating point:
\* x/0 is +-inf (0/0 is NaN), the log of a negative number is NaN, log(0) is
\* -inf and log(inf) is inf; none of these raises.  A huge numerator over a
\* denominator that is not huge overflows to +-inf, the converse underflows
\* to +-0, and neither raises.  The quotient is reduced to lowest terms
\* before the table is read.
LogRatio(a, b) ==
    IF b = 0 THEN (IF a > 0 THEN PInf ELSE NaN)
    ELSE IF a = 0 THEN NInf
    ELSE IF HugePart(a) = 0 /\ HugePart(b) # 0 THEN NInf
    ELSE IF (a > 0) # (b > 0) THEN NaN
    ELSE IF HugePart(a) # 0 /\ HugePart(b) = 0 THEN PInf
    ELSE LET x == IF HugePart(a) # 0 THEN Abs(HugePart(a)) ELSE Abs(a)
             y == IF HugePart(b) # 0 THEN Abs(HugePart(b)) ELSE Abs(b)
             g == GCD(x, y)
         IN  Fin(LnTable[x \div g] - LnTable[y \div g])

\* a / b for integers a, b in floating point, in thousandths (truncated).
Quotient(a, b) ==
    IF b = 0 THEN (IF a > 0 THEN PInf ELSE IF a < 0 THEN NInf ELSE NaN)
    ELSE IF (a < 0) # (b < 0) THEN Fin(-((Abs(a) * 1000) \div Abs(b)))
    ELSE Fin((Abs(a) * 1000) \div Abs(b))

\* 1 / f for a numpy float f: division by zero gives inf, it does not raise.
Recip(f) ==
    CASE f.k = "nan" -> NaN
      [] f.k = "inf" -> Fin(0)
      [] f.v = 0 -> PInf
      [] f.v > 0 -> Fin(1000000 \div f.v)
      [] OTHER -> Fin(-(1000000 \div (-f.v)))

---------------------------------------------------------------------------
(* Run-length encoded series *)

RECURSIVE RunTotal(_)
\* len(series)
RunTotal(s) == IF s = <<>> THEN 0 ELSE Head(s).k + RunTotal(Tail(s))

RunValues(s) == {s[i].v : i \in DOMAIN s}

RECURSIVE PowerSum(_, _)
\* The sum of x^p over the observations x of a series.
PowerSum(s, p) ==
    IF s = <<>> THEN 0 ELSE Head(s).k * Head(s).v ^ p + PowerSum(Tail(s), p)

RECURSIVE RunGcd(_)
\* The greatest common divisor of the observations of a series, 0 when
\* all of them are 0.
RunGcd(s) == IF s = <<>> THEN 0 ELSE GCD(Abs(Head(s).v), RunGcd(Tail(s)))

\* x - mean for the observations x of a series, in the unit that makes them
\* integers without a common divisor: the runs (n x - sum) / gcd, and the
\* gcd as unit, so that x - mean is unit / n times the run value.  The
\* sample skewness and kurtosis are quotients that do not depend on the unit.
Deviations(s) ==
    LET raw == [i \in DOMAIN s |->
                   [v |-> RunTotal(s) * s[i].v - PowerSum(s, 1), k |-> s[i].k]]
        unit == IF RunGcd(raw) = 0 THEN 1 ELSE RunGcd(raw)
    IN  [unit |-> unit,
         runs |-> [i \in DOMAIN s |-> [v |-> raw[i].v \div unit, k |-> raw[i].k]]]

RECURSIVE ExpNeg(_, _)
\* exp(-x) for x >= 0, both in ten-thousandths: the series
\* 1 - x (1 - x/2 (1 - x/3 ...)) from its k-th factor on for x <= 1, and
\* exp(-x/2) squared above.
ExpNeg(x, k) ==
    IF x > 10000 THEN (ExpNeg(x \div 2, 1) * ExpNeg(x \div 2, 1)) \div 10000
    ELSE IF k > 10 THEN 10000
    ELSE 10000 - (x * ExpNeg(x, k + 1)) \div (k * 10000)

CountLE(s, x) == RunTotal(SelectSeq(s, LAMBDA r : r.v <= x))

\* The i-th smallest observation, i counted from 0.
OrderStat(s, i) ==
    CHOOSE x \in RunValues(s) :
        /\ CountLE(s, x) > i
        /\ \A y \in RunValues(s) : y < x => CountLE(s, y) <= i

\* Series.quantile(q), linear interpolation between the order statistics at
\* floor(h) and ceil(h), h = (n - 1) q.  The result is a rational
\* [num, den]; nan is TRUE for an empty series.
quantile(s, q) ==
    LET n == RunTotal(s)
        h == (n - 1) * q[1]
        lo == h \div q[2]
        r == h % q[2]
        hi == IF r = 0 THEN lo ELSE lo + 1
    IN  IF n = 0 THEN [nan |-> TRUE, num |-> 0, den |-> q[2]]
        ELSE [nan |-> FALSE,
              num |-> OrderStat(s, lo) * q[2]
                        + (OrderStat(s, hi) - OrderStat(s, lo)) * r,
              den |-> q[2]]

\* series[series >= threshold]
TailData_ge(s, u) ==
    IF u.nan THEN <<>> ELSE SelectSeq(s, LAMBDA r : r.v * u.den >= u.num)

\* series[series > threshold]
TailData(s, u) ==
    IF u.nan THEN <<>> ELSE SelectSeq(s, LAMBDA r : r.v * u.den > u.num)

\* np.log(tail_data / threshold), run by run
LogExceedances(tail, u) ==
    [i \in DOMAIN tail |->
        [v |-> LogRatio(tail[i].v * u.den, u.num), k |-> tail[i].k]]

RECURSIVE WeightedSum(_)
WeightedSum(ls) ==
    IF ls = <<>> THEN 0 ELSE Head(ls).v.v * Head(ls).k + WeightedSum(Tail(ls))

\* Series.mean() of floats: NaN entries are skipped (skipna), an all-NaN or
\* empty series has mean NaN, an infinite entry makes the mean infinite.
MeanSkipNa(ls) ==
    LET ok == SelectSeq(ls, LAMBDA e : ~IsNaN(e.v))
        infs == {ok[i].v : i \in {j \in DOMAIN ok : ok[j].v.k = "inf"}}
    IN  IF ok = <<>> THEN NaN
        ELSE IF infs = {} THEN Fin(WeightedSum(ok) \div RunTotal(ok))
        ELSE IF Cardinality(infs) > 1 THEN NaN
        ELSE CHOOSE f \in infs : TRUE

---------------------------------------------------------------------------
(* hill_tail_index *)

\* The floor on the number of exceedances.
MinTail == 10

hill_tail_index(series, threshold_quantile) ==
    LET threshold == quantile(series, threshold_quantile)
        tail_data == TailData(series, threshold)
    IN  IF RunTotal(tail_data) < MinTail THEN NaN
        ELSE Recip(MeanSkipNa(LogExceedances(tail_data, threshold)))

\* The caller extends the series by a run of k observations equal to v.
HillObserve(v, k) ==
    /\ hpc = "build"
    /\ Len(hSeries) < MaxRuns
    /\ RunTotal(hSeries) + k <= MaxLen
    /\ IF hSeries = <<>> THEN TRUE ELSE hSeries[Len(hSeries)].v # v
    /\ hSeries' = Append(hSeries, [v |-> v, k |-> k])
    /\ UNCHANGED <<hpc, hQ, hResult>>
    /\ UNCHANGED <<svars, fvars, rvars, mvars, gvars, nvars>>

\* The call hill_tail_index(series, q).
HillCall(q) ==
    /\ hpc = "build"
    /\ hpc' = "done"
    /\ hQ' = q
    /\ hResult' = hill_tail_index(hSeries, q)
    /\ UNCHANGED hSeries
    /\ UNCHANGED <<svars, fvars, rvars, mvars, gvars, nvars>>

HillNext ==
    \/ \E v \in Values, k \in 1 .. MaxLen : HillObserve(v, k)
    \/ \E q \in Quantiles : HillCall(q)

\* The caller extends a long series: the observations added to its first
\* run are at most MaxLen.
HillExtend(v, k) ==
    /\ hpc = "build"
    /\ Len(hSeries) < MaxRuns
    /\ RunTotal(Tail(hSeries)) + k <= MaxLen
    /\ hSeries[Len(hSeries)].v # v
    /\ hSeries' = Append(hSeries, [v |-> v, k |-> k])
    /\ UNCHANGED <<hpc, hQ, hResult>>
    /\ UNCHANGED <<svars, fvars, rvars, mvars, gvars, nvars>>

HillLongNext ==
    \/ \E v \in Values, k \in 1 .. MaxLen : HillExtend(v, k)
    \/ \E q \in Quantiles : HillCall(q)

---------------------------------------------------------------------------
(* compute_returns *)

\* Prices of the two columns of a panel given to compute_returns: missing,
\* negative, zero and positive.
PricesA == {NaN, Fin(-1000), Fin(0), Fin(1000), Fin(2000)}
PricesB == {NaN, Fin(0), Fin(1000)}
\* return_type values that are not strings: the YAML null, loaded as None.
NonStrings == {"<None>"}
\* return_type arguments.
ReturnTypes == {"log", "LOG", "simple", "lg", ""} \cup NonStrings

\* return_type.lower() raises AttributeError when return_type is not a str.
LowerRaises(x) == x \in NonStrings

\* str.lower() that leaves its argument as it is.
Lower_asIs(str) == str

\* str.lower() on the return types.
Lower(str) == IF str = "LOG" THEN "log" ELSE str

\* np.log(p / prev): NaN as soon as one price is missing.
LogReturn(p, prev) ==
    IF IsNaN(p) \/ IsNaN(prev) THEN NaN ELSE LogRatio(p.v, prev.v)

\* (p - prev) / prev
SimpleReturn(p, prev) ==
    IF IsNaN(p) \/ IsNaN(prev) THEN NaN ELSE Quotient(p.v - prev.v, prev.v)

\* DataFrame.dropna(): the rows without any NaN cell; +-inf is not missing.
DropNa(panel) ==
    SelectSeq(panel, LAMBDA row : \A c \in DOMAIN row : ~IsNaN(row[c]))

\* The panel before dropna: prices.shift(1) is all NaN in the first row.
RawReturns(prices, return_type) ==
    [t \in DOMAIN prices |->
        [c \in DOMAIN prices[t] |->
            IF t = 1 THEN NaN
            ELSE IF Lower(return_type) = "log"
                 THEN LogReturn(prices[t][c], prices[t - 1][c])
                 ELSE SimpleReturn(prices[t][c], prices[t - 1][c])]]

\* compute_returns that fills the undefined first row with 0 and keeps it.
compute_returns_fillFirst(prices, return_type) ==
    DropNa([t \in DOMAIN prices |->
               [c \in DOMAIN prices[t] |->
                   IF t = 1 THEN Fin(0) ELSE RawReturns(prices, return_type)[t][c]]])

compute_returns(prices, return_type) == DropNa(RawReturns(prices, return_type))

\* The caller extends the price panel by a row.
ReturnsAddRow(a, b) ==
    /\ rpc = "build"
    /\ Len(rPrices) < MaxRows
    /\ rPrices' = Append(rPrices, <<a, b>>)
    /\ UNCHANGED <<rpc, rType, rReturns, rSummary>>
    /\ UNCHANGED <<hvars, svars, fvars, mvars, gvars, nvars>>

\* The call compute_returns(prices, return_type).
ReturnsCall(rt) ==
    /\ rpc = "build"
    /\ rType' = rt
    /\ IF LowerRaises(rt) THEN rpc' = "AttributeError" /\ UNCHANGED rReturns
       ELSE rpc' = "done" /\ rReturns' = compute_returns(rPrices, rt)
    /\ UNCHANGED <<rPrices, rSummary>>
    /\ UNCHANGED <<hvars, svars, fvars, mvars, gvars, nvars>>

---------------------------------------------------------------------------
(* stationarity_tests *)

\* What a statsmodels routine (adfuller, kpss) does on one series: it raises,
\* or it returns a statistic and a p-value, which may be NaN.
Raised == [raised |-> TRUE, stat |-> NaN, pval |-> NaN]
Returned(stat, pval) == [raised |-> FALSE, stat |-> stat, pval |-> pval]
TestOutcomes ==
    {Raised, Returned(NaN, NaN), Returned(Fin(-3500), Fin(10)),
     Returned(Fin(-3000), Fin(50)), Returned(Fin(-1000), Fin(100))}
\* Significance levels: 0.05 and 0.10.
Alphas == {Fin(50), Fin(100)}

\* The ADF block with the comparison written adf_pval <= alpha.
AdfTest_le(out, alpha) ==
    IF out.raised THEN [stat |-> NaN, pval |-> NaN, result |-> "Error"]
    ELSE [stat |-> out.stat, pval |-> out.pval,
          result |-> IF FLessEq(out.pval, alpha) THEN "Stationary"
                     ELSE "Non-stationary"]

\* The ADF try/except block: (adf_stat, adf_pval, adf_result).
AdfTest(out, alpha) ==
    IF out.raised THEN [stat |-> NaN, pval |-> NaN, result |-> "Error"]
    ELSE [stat |-> out.stat, pval |-> out.pval,
          result |-> IF FLess(out.pval, alpha) THEN "Stationary"
                     ELSE "Non-stationary"]

\* The KPSS block with the comparison of the ADF block, kpss_pval < alpha.
KpssTest_lt(out, alpha) ==
    IF out.raised THEN [stat |-> NaN, pval |-> NaN, result |-> "Error"]
    ELSE [stat |-> out.stat, pval |-> out.pval,
          result |-> IF FLess(out.pval, alpha) THEN "Stationary"
                     ELSE "Non-stationary"]

\* The KPSS try/except block: (kpss_stat, kpss_pval, kpss_result).
KpssTest(out, alpha) ==
    IF out.raised THEN [stat |-> NaN, pval |-> NaN, result |-> "Error"]
    ELSE [stat |-> out.stat, pval |-> out.pval,
          result |-> IF FLess(alpha, out.pval) THEN "Stationary"
                     ELSE "Non-stationary"]

\* The dict appended to results for column col.
StationarityRow(col, adf, kpss, alpha) ==
    [Series |-> col,
     ADF_Statistic |-> AdfTest(adf, alpha).stat,
     ADF_p_value |-> AdfTest(adf, alpha).pval,
     ADF_Result |-> AdfTest(adf, alpha).result,
     KPSS_Statistic |-> KpssTest(kpss, alpha).stat,
     KPSS_p_value |-> KpssTest(kpss, alpha).pval,
     KPSS_Result |-> KpssTest(kpss, alpha).result]

\* stationarity_tests that appends no row for a column whose ADF test raised.
stationarity_tests_skipFailed(cols, outs, alpha) ==
    LET kept == SelectSeq([i \in DOMAIN cols |-> i], LAMBDA i : ~outs[i].adf.raised)
    IN  [j \in DOMAIN kept |->
            StationarityRow(cols[kept[j]], outs[kept[j]].adf, outs[kept[j]].kpss, alpha)]

\* stationarity_tests(data, alpha) given what the two routines do for each
\* column (outs[i] = [adf, kpss]): one row per column, in column order.
stationarity_tests(cols, outs, alpha) ==
    [i \in DOMAIN cols |-> StationarityRow(cols[i], outs[i].adf, outs[i].kpss, alpha)]

\* One iteration of the for loop: both tests on the next column.
StationarityIter(adf, kpss) ==
    /\ spc = "loop"
    /\ Len(sRows) < Len(sCols)
    /\ sLib' = Append(sLib, [adf |-> adf, kpss |-> kpss])
    /\ sRows' = Append(sRows,
                       StationarityRow(sCols[Len(sRows) + 1], adf, kpss, sAlpha))
    /\ UNCHANGED <<spc, sAlpha, sCols>>
    /\ UNCHANGED <<hvars, fvars, rvars, mvars, gvars, nvars>>

\* The loop is over: return pd.DataFrame(results).
StationarityReturn ==
    /\ spc = "loop"
    /\ Len(sRows) = Len(sCols)
    /\ spc' = "done"
    /\ UNCHANGED <<sAlpha, sCols, sLib, sRows>>
    /\ UNCHANGED <<hvars, fvars, rvars, mvars, gvars, nvars>>

StatNext ==
    \/ \E adf \in TestOutcomes, kpss \in TestOutcomes : StationarityIter(adf, kpss)
    \/ StationarityReturn

---------------------------------------------------------------------------
(* stylized_facts *)

\* Return series of a column, the observations in ten-thousandths (basis
\* points): empty, three observations, and two with ten observations above
\* their minimum, by one and by two basis points.
SeriesPool ==
    {<<>>, <<[v |-> 1, k |-> 3]>>,
     <<[v |-> 1, k |-> 1], [v |-> 2, k |-> 10]>>,
     <<[v |-> 2, k |-> 1], [v |-> 4, k |-> 10]>>}

\* What the unpacking 'lb_stat, lb_pval = acorr_ljungbox(series, lags,
\* return_df=False)' gives, depending on the statsmodels release: the call
\* raises; it returns the two arrays, of which the last entries are kept
\* (here as stat and pval); or it returns a DataFrame, whose unpacking gives
\* its two column labels 'lb_stat' and 'lb_pvalue'.  A label is held by the
\* character code of its last character, 't' = 116 and 'e' = 101.
LbOutcomes ==
    {Raised, Returned(Fin(12345), Fin(253)), Returned(NaN, NaN),
     Returned([k |-> "label", v |-> 116], [k |-> "label", v |-> 101])}

\* het_arch(series, nlags) raises, or returns the tuple
\* (lm, lm_pvalue, fvalue, f_pvalue).
ArchOutcomes ==
    {[raised |-> TRUE, ret |-> <<>>],
     [raised |-> FALSE, ret |-> <<Fin(8400), Fin(38), Fin(4500), Fin(35)>>]}

\* series.kurtosis(), the bias-corrected excess kurtosis of pandas
\* (nankurt), of a series whose observations are in ten-thousandths, in
\* thousandths (rounded down).  With m2, m4 the sums of the squared and
\* fourth-power deviations from the mean,
\*   numerator = n (n+1) (n-1) m4,  denominator = (n-2) (n-3) m2^2,
\* and each of the two is set to 0 when it is below 1e-14.  The result is NaN
\* below four observations, 0 when the denominator is 0 (a constant series,
\* or one that varies too little), and otherwise
\*   numerator / denominator - 3 (n-1)^2 / ((n-2) (n-3)).
\* A deviation is dev.unit / (10000 n) times its run value, so that
\* numerator < 1e-14 reads (n+1) (n-1) unit^4 m4 < 100 n^3 and
\* denominator < 1e-14 reads (n-2) (n-3) unit^4 m2^2 < 100 n^4; the
\* conjuncts before them follow from them and keep the products small.
kurtosis(series) ==
    LET n == RunTotal(series)
        dev == Deviations(series)
        m2 == PowerSum(dev.runs, 2)
        m4 == PowerSum(dev.runs, 4)
        unit2 == dev.unit * dev.unit
        numZeroed == /\ dev.unit < 3 * n
                     /\ unit2 * unit2 < 134 * n
                     /\ m4 < 134 * n
                     /\ (n + 1) * (n - 1) * unit2 * unit2 * m4 < 100 * n * n * n
        denZeroed == /\ dev.unit < 3 * n
                     /\ m2 < 8 * n * n
                     /\ unit2 * m2 < 8 * n * n
                     /\ (n - 2) * (n - 3) * (unit2 * m2) * (unit2 * m2)
                            < 100 * n * n * n * n
        adj == 3 * (n - 1) * (n - 1)
        num == (IF numZeroed THEN 0 ELSE n * (n + 1) * (n - 1) * m4) - adj * m2 * m2
        den == (n - 2) * (n - 3) * m2 * m2
    IN  IF n < 4 THEN NaN
        ELSE IF m2 = 0 \/ denZeroed THEN Fin(0)
        ELSE Fin((num \div den) * 1000 + ((num % den) * 1000) \div den)

\* The keys of config.tests and config.tails, and the configured quantile.
FactsConfigs ==
    [tests : SUBSET {"lb_lags", "arch_lm_lags"},
     tails : SUBSET {"hill_threshold_quantile"},
     hill_threshold_quantile : Quantiles]

\* The Ljung-Box try/except block: lb_result.  config.tests['lb_lags'] is
\* read inside the try, so a missing key gives (nan, nan) as well.
LjungBoxTest(out, cfg) ==
    IF "lb_lags" \notin cfg.tests \/ out.raised THEN <<NaN, NaN>>
    ELSE IF out.stat.k = "label"
        THEN <<[k |-> "str", v |-> out.stat.v], [k |-> "str", v |-> out.pval.v]>>
    ELSE <<out.stat, out.pval>>

\* The ARCH-LM try/except block: arch_result.  The returned tuple is
\* unpacked into the two names arch_stat, arch_pval, which raises ValueError
\* unless it holds exactly two values.
ArchLmTest(out, cfg) ==
    IF "arch_lm_lags" \notin cfg.tests \/ out.raised \/ Len(out.ret) # 2
    THEN <<NaN, NaN>>
    ELSE <<out.ret[1], out.ret[2]>>

\* The dict appended to results for column col.
StylizedRow(col, series, out, cfg) ==
    [Series |-> col,
     Ljung_Box_Stat |-> LjungBoxTest(out.lb, cfg)[1],
     Ljung_Box_p_value |-> LjungBoxTest(out.lb, cfg)[2],
     ARCH_LM_Stat |-> ArchLmTest(out.arch, cfg)[1],
     ARCH_LM_p_value |-> ArchLmTest(out.arch, cfg)[2],
     Hill_Tail_Index |-> hill_tail_index(series, cfg.hill_threshold_quantile),
     Excess_Kurtosis |-> kurtosis(series)]

\* config.tails['hill_threshold_quantile'] is evaluated outside any try: a
\* missing key raises KeyError out of stylized_facts in the first iteration.
StylizedRaises(cols, cfg) ==
    cols # <<>> /\ "hill_threshold_quantile" \notin cfg.tails

\* stylized_facts(returns, config) given what the library does for each
\* column: one row per column, in column order, unless it raises.
stylized_facts(cols, series, outs, cfg) ==
    [raised |-> StylizedRaises(cols, cfg),
     rows |-> IF StylizedRaises(cols, cfg) THEN <<>>
              ELSE [i \in DOMAIN cols |->
                        StylizedRow(cols[i], series[i], outs[i], cfg)]]

\* One iteration of the for loop on the next column.  The statsmodels
\* release is the same for all columns of a call: acorr_ljungbox returns a
\* DataFrame for all of them or for none.
StylizedIter(lb, arch) ==
    /\ fpc = "loop"
    /\ Len(fRows) < Len(fCols)
    /\ ~StylizedRaises(fCols, fCfg)
    /\ \A i \in DOMAIN fLib :
          ~lb.raised /\ ~fLib[i].lb.raised =>
              (lb.stat.k = "label") = (fLib[i].lb.stat.k = "label")
    /\ fLib' = Append(fLib, [lb |-> lb, arch |-> arch])
    /\ fRows' = Append(fRows,
                       StylizedRow(fCols[Len(fRows) + 1], fSeries[Len(fRows) + 1],
                                   [lb |-> lb, arch |-> arch], fCfg))
    /\ UNCHANGED <<fpc, fCfg, fCols, fSeries>>
    /\ UNCHANGED <<hvars, svars, rvars, mvars, gvars, nvars>>

\* The KeyError of a missing hill_threshold_quantile leaves the function.
StylizedKeyError ==
    /\ fpc = "loop"
    /\ StylizedRaises(fCols, fCfg)
    /\ fpc' = "raised"
    /\ UNCHANGED <<fCfg, fCols, fSeries, fLib, fRows>>
    /\ UNCHANGED <<hvars, svars, rvars, mvars, gvars, nvars>>

\* The loop is over: return pd.DataFrame(results).
StylizedReturn ==
    /\ fpc = "loop"
    /\ Len(fRows) = Len(fCols)
    /\ fpc' = "done"
    /\ UNCHANGED <<fCfg, fCols, fSeries, fLib, fRows>>
    /\ UNCHANGED <<hvars, svars, rvars, mvars, gvars, nvars>>

FactsNext ==
    \/ \E lb \in LbOutcomes, arch \in ArchOutcomes : StylizedIter(lb, arch)
    \/ StylizedKeyError
    \/ StylizedReturn

---------------------------------------------------------------------------
(* Configuration *)

\* The fields of EDAConfig.
TopFields ==
    {"input_csv", "date_column", "parse_dates", "dropna", "price_columns_include",
     "price_columns_exclude", "resample", "return_type", "plots", "tests",
     "tails", "output_dirs", "seed"}

\* The plots create_plots may draw, in its order.
PlotNames == <<"timeseries", "returns", "heatmap", "acf_pacf", "qq">>

\* A complete configuration document: dates from the column Date, rows with a
\* missing price dropped, no resampling, log returns, one plot.
BaseDoc ==
    [top |-> TopFields,
     date_column |-> "Date",
     parse_dates |-> TRUE,
     dropna |-> TRUE,
     price_columns_include |-> <<>>,
     price_columns_exclude |-> {},
     resample |-> "",
     return_type |-> "log",
     plots |-> [keys |-> {"timeseries", "returns", "heatmap", "acf_pacf", "qq"},
                on |-> {"timeseries"}],
     tests |-> {"adf_alpha", "lb_lags", "arch_lm_lags"},
     adf_alpha |-> Fin(50),
     tails |-> {"hill_threshold_quantile"},
     hill_threshold_quantile |-> <<0, 20>>,
     output_dirs |-> {"artifacts", "reports"}]

\* The configuration file: whether it exists, whether it parses as YAML
\* ("ok", "invalid", or "empty" when safe_load returns None), and its content.
BaseCfgFile == [exists |-> TRUE, yaml |-> "ok", doc |-> BaseDoc]

\* What a function call does: it returns a value or raises an exception.
Ok(value) == [raised |-> FALSE, error |-> "", value |-> value]
Raise(error) == [raised |-> TRUE, error |-> error, value |-> <<>>]

\* load_config(config_path).  EDAConfig(**config_dict) raises TypeError when
\* a field is missing; nothing inside plots, tests, tails or output_dirs is
\* looked at.
load_config(file) ==
    IF ~file.exists THEN Raise("FileNotFoundError: configuration file not found")
    ELSE IF file.yaml = "invalid" THEN Raise("ValueError: invalid YAML")
    ELSE IF file.yaml = "empty" THEN Raise("ValueError: failed to load configuration")
    ELSE IF file.doc.top # TopFields THEN Raise("ValueError: failed to load configuration")
    ELSE Ok(file.doc)

---------------------------------------------------------------------------
(* load_data *)

\* A cell of the table that holds text, not a number.
Str == [k |-> "str", v |-> 0]

\* The patterns 'date', 'time', 'index', 'id' found in a lower-cased column name.
NamePatterns(name) ==
    CASE name = "Date" -> {"date"}
      [] name = "id" -> {"id"}
      [] name = "timestamp" -> {"time"}
      [] OTHER -> {}

SeqToSet(q) == {q[i] : i \in DOMAIN q}

\* The position of a name in a sequence of distinct names.
IndexOf(q, x) == CHOOSE i \in DOMAIN q : q[i] = x

\* dropna(how='all'): only the rows with every cell NaN are dropped.
PanelDropNa_all(panel) ==
    LET keep == {i \in DOMAIN panel.rows :
                    \E c \in DOMAIN panel.rows[i] : ~IsNaN(panel.rows[i][c])}
        pos == SelectSeq([i \in DOMAIN panel.rows |-> i], LAMBDA i : i \in keep)
    IN  [panel EXCEPT !.rows = [j \in DOMAIN pos |-> panel.rows[pos[j]]],
                      !.t = [j \in DOMAIN pos |-> panel.t[pos[j]]]]

\* rows of the panel without any NaN cell
PanelDropNa(panel) ==
    LET keep == {i \in DOMAIN panel.rows :
                    \A c \in DOMAIN panel.rows[i] : ~IsNaN(panel.rows[i][c])}
        pos == SelectSeq([i \in DOMAIN panel.rows |-> i], LAMBDA i : i \in keep)
    IN  [panel EXCEPT !.rows = [j \in DOMAIN pos |-> panel.rows[pos[j]]],
                      !.t = [j \in DOMAIN pos |-> panel.t[pos[j]]]]

\* The cell of column c that resample(rule).last() keeps for period p: the
\* last one of the period that is not NaN, NaN when there is none.
LastInPeriod(panel, p, c) ==
    LET hits == {i \in DOMAIN panel.rows : panel.t[i] = p /\ ~IsNaN(panel.rows[i][c])}
    IN  IF hits = {} THEN NaN
        ELSE panel.rows[CHOOSE i \in hits : \A j \in hits : j <= i][c]

RECURSIVE SortedSeq(_)
\* The elements of a finite set of integers in increasing order.
SortedSeq(S) ==
    IF S = {} THEN <<>>
    ELSE LET lo == CHOOSE x \in S : \A y \in S : x <= y
         IN  <<lo>> \o SortedSeq(S \ {lo})

\* df.resample(rule).last().dropna(): one row per period, in period order,
\* the periods without a complete row dropped.
Resample(panel) ==
    LET periods == SortedSeq({panel.t[i] : i \in DOMAIN panel.t})
        last == [panel EXCEPT
                    !.t = periods,
                    !.rows = [j \in DOMAIN periods |->
                                [c \in DOMAIN panel.cols |->
                                    LastInPeriod(panel, periods[j], c)]]]
    IN  PanelDropNa(last)

\* The names of the columns of the table, in table order.
ColumnNames(file) == [i \in DOMAIN file.cols |-> file.cols[i].name]

\* The kind of the column of the table with this name.
KindOf(file, name) == file.cols[IndexOf(ColumnNames(file), name)].kind

\* pd.to_datetime(df[name]) raises on text that is no date; numbers convert,
\* and so does the column of a table without rows, which holds no value.
ToDatetimeRaises(file, name) == file.rows # <<>> /\ KindOf(file, name) = "text"

\* The columns whose lower-cased name contains 'date' or 'time'.
DateCols(names) ==
    SelectSeq(names, LAMBDA n : "date" \in NamePatterns(n) \/ "time" \in NamePatterns(n))

\* The date handling with the pattern match outside the parse_dates branch.
DateHow_patternAlways(config, names) ==
    IF config.date_column # "" /\ config.date_column \in SeqToSet(names) THEN "declared"
    ELSE IF DateCols(names) # <<>> THEN "pattern"
    ELSE IF ~config.parse_dates THEN "none"
    ELSE "first"

\* The branch the date handling takes: the declared column, and under
\* parse_dates the first date-named column or else the first column.
DateHow(config, names) ==
    IF config.date_column # "" /\ config.date_column \in SeqToSet(names) THEN "declared"
    ELSE IF ~config.parse_dates THEN "none"
    ELSE IF DateCols(names) # <<>> THEN "pattern"
    ELSE "first"

\* The column that branch hands to pd.to_datetime, "" when there is none.
DateColumn(config, names) ==
    CASE DateHow(config, names) = "declared" -> config.date_column
      [] DateHow(config, names) = "pattern" -> DateCols(names)[1]
      [] DateHow(config, names) = "first" -> names[1]
      [] OTHER -> ""

\* price_cols without the filter on price_columns_exclude.
PriceCols_noExclude(config, file, dfcols) ==
    IF config.price_columns_include # <<>> THEN config.price_columns_include
    ELSE SelectSeq(dfcols, LAMBDA n :
            NamePatterns(n) = {} /\ file.rows # <<>> /\ KindOf(file, n) = "num")

\* price_cols: the include list, or else the numeric columns of df whose
\* name holds none of the patterns, without the excluded names.  read_csv
\* infers the dtype of a column from its values: in a table without rows
\* every column has dtype object and none is numeric.
PriceCols(config, file, dfcols) ==
    SelectSeq(IF config.price_columns_include # <<>> THEN config.price_columns_include
              ELSE SelectSeq(dfcols, LAMBDA n :
                        NamePatterns(n) = {} /\ file.rows # <<>>
                            /\ KindOf(file, n) = "num"),
              LAMBDA n : n \notin config.price_columns_exclude)

\* load_data(config) on the file config.input_csv.  The value returned is the
\* price panel [cols, index, index_name, t, rows] and whether the date
\* warning was printed; the warning is printed before the price columns are
\* looked for, so an exception raised from there on comes after it: what is
\* raised carries, as warned, whether the warning had been printed.
load_data(config, file) ==
    LET names == ColumnNames(file)
        how == DateHow(config, names)
        dateCol == DateColumn(config, names)
        parsed == how # "none" /\ ~ToDatetimeRaises(file, dateCol)
        warned == how = "first" /\ ~parsed
        index == IF parsed THEN "datetime" ELSE "ordinal"
        dfcols == IF parsed THEN SelectSeq(names, LAMBDA n : n # dateCol) ELSE names
        price_cols == PriceCols(config, file, dfcols)
        selected ==
            [cols |-> price_cols,
             index |-> index,
             index_name |-> IF parsed THEN dateCol ELSE "",
             t |-> [i \in DOMAIN file.rows |->
                      IF parsed /\ KindOf(file, dateCol) = "date" THEN file.rows[i].t
                      ELSE 0],
             rows |-> [i \in DOMAIN file.rows |->
                         [c \in DOMAIN price_cols |->
                             file.rows[i].cells[IndexOf(names, price_cols[c])]]]]
        cleaned == IF config.dropna THEN PanelDropNa(selected) ELSE selected
        LoadRaise(error, printed) ==
            [raised |-> TRUE, error |-> error, value |-> <<>>, warned |-> printed]
    IN  IF ~file.exists THEN LoadRaise("FileNotFoundError: data file not found", FALSE)
        ELSE IF ~file.readable THEN LoadRaise("ValueError: failed to load data", FALSE)
        ELSE IF how \in {"declared", "pattern"} /\ ~parsed
            THEN LoadRaise("to_datetime: unknown datetime string format", FALSE)
        ELSE IF price_cols = <<>>
            THEN LoadRaise("ValueError: No price columns found!", warned)
        ELSE IF \E c \in DOMAIN price_cols : price_cols[c] \notin SeqToSet(dfcols)
            THEN LoadRaise("KeyError: not in index", warned)
        ELSE IF selected.rows = <<>>
            THEN LoadRaise("ValueError: No data found after selecting price columns",
                           warned)
        ELSE IF cleaned.rows = <<>>
            THEN LoadRaise("ValueError: No data remaining after dropping NA values",
                           warned)
        ELSE IF config.resample = "" THEN Ok([panel |-> cleaned, warned |-> warned])
        ELSE IF index # "datetime"
            THEN LoadRaise("TypeError: Only valid with DatetimeIndex", warned)
        ELSE Ok([panel |-> Resample(cleaned), warned |-> warned])

---------------------------------------------------------------------------
(* The analyzers as main calls them *)

\* Column c of a panel's rows, as a sequence of floats.
Column(rows, c) == [t \in DOMAIN rows |-> rows[t][c]]

\* The column run-length encoded, one run per observation.  Its values are
\* those of finite returns; hill_tail_index looks at the values only from
\* MinTail observations on.
ColumnRuns(col) == [t \in DOMAIN col |-> [v |-> col[t].v, k |-> 1]]

\* series = returns[col].dropna()
SeriesOf(rows, c) == SelectSeq(Column(rows, c), LAMBDA x : ~IsNaN(x))

\* stats.jarque_bera(series): JB = n/6 (S^2 + (K - 3)^2 / 4) with the
\* sample skewness S = m3 / m2^(3/2) and kurtosis K = m4 / m2^2 of the
\* moments m_k = sum((x - mean)^k) / n, and the p-value exp(-JB / 2) of the
\* chi-square distribution with two degrees of freedom, both in thousandths
\* (fixed point, exact to about a thousandth).  On an empty series it raises
\* or returns NaN, depending on the scipy release (emptyRaises); a constant
\* series, a single observation included, has m2 = 0 and gives NaN, and so
\* does a series that holds an infinite return.
jarque_bera(series, emptyRaises) ==
    LET n == Len(series)
        d == Deviations(ColumnRuns(series)).runs
        s2 == PowerSum(d, 2)
        s3 == PowerSum(d, 3)
        s4 == PowerSum(d, 4)
        Milli(a, b) == (a \div b) * 1000 + ((a % b) * 1000) \div b
        \* S^2 = n s3^2 / s2^3 and K = n s4 / s2^2
        skew2 == Milli(n * s3 * s3, s2 * s2) \div s2
        kurt == Milli(n * s4, s2 * s2)
        jb == (4000 * n * skew2 + n * (kurt - 3000) * (kurt - 3000)) \div 24000
    IN  IF n = 0 THEN (IF emptyRaises THEN Raised ELSE Returned(NaN, NaN))
        ELSE IF \E t \in DOMAIN series : ~IsFinite(series[t]) THEN Returned(NaN, NaN)
        ELSE IF s2 = 0 THEN Returned(NaN, NaN)
        ELSE Returned(Fin(jb), Fin(ExpNeg(5 * jb, 1) \div 10))

\* summary_statistics(returns): the call of jarque_bera is not guarded, so
\* its exception leaves the function.
summary_statistics(cols, rows, emptyRaises) ==
    LET jbs == [c \in DOMAIN cols |-> jarque_bera(SeriesOf(rows, c), emptyRaises)]
    IN  IF \E c \in DOMAIN cols : jbs[c].raised THEN Raise("ValueError: jarque_bera")
        ELSE Ok([c \in DOMAIN cols |->
                    [Series |-> cols[c],
                     JB_Statistic |-> jbs[c].stat,
                     JB_p_value |-> jbs[c].pval,
                     Observations |-> Len(SeriesOf(rows, c))]])

\* summary_statistics(returns) on the panel compute_returns returned, of
\* columns A and B.
ReturnsSummary(emptyRaises) ==
    /\ rpc = "done"
    /\ LET r == summary_statistics(SubSeq(ColNames, 1, 2), rReturns, emptyRaises)
       IN  /\ rpc' = IF r.raised THEN "raised" ELSE "summarized"
           /\ rSummary' = r.value
    /\ UNCHANGED <<rPrices, rType, rReturns>>
    /\ UNCHANGED <<hvars, svars, fvars, mvars, gvars, nvars>>

ReturnsNext ==
    \/ \E a \in PricesA, b \in PricesB : ReturnsAddRow(a, b)
    \/ \E rt \in ReturnTypes : ReturnsCall(rt)
    \/ \E emptyRaises \in BOOLEAN : ReturnsSummary(emptyRaises)

\* The plot file create_plots saves for a plot name in the directory
\* output_dirs['reports']: one figure for the panel, or for the plots drawn
\* in a loop over the columns the figure of a column, acf_{col}.png or
\* qq_{col}.png.
PlotFile(name, col) ==
    CASE name = "timeseries" -> <<"reports", "prices.png", "">>
      [] name = "returns" -> <<"reports", "returns.png", "">>
      [] name = "heatmap" -> <<"reports", "corr_heatmap.png", "">>
      [] name = "acf_pacf" -> <<"reports", "acf.png", col>>
      [] OTHER -> <<"reports", "qq.png", col>>

RECURSIVE PlotsFrom(_, _, _, _, _, _)
\* create_plots from plot number i on, files being the files saved so far,
\* for returns of nobs rows.  config.plots[name] raises KeyError for a
\* missing name, the path needs output_dirs['reports'], and
\* failAt = <<name, c>> names the plot whose drawing raises.  The plots
\* acf_pacf and qq are a loop over the columns that draws and saves one
\* figure per column: there the drawing of column c raises, after the
\* figures of the columns before it were saved.  plot_pacf(series, lags=40)
\* raises by itself on a series too short for 40 lags (nlags >= nobs // 2),
\* so on such returns the figure of the first column is never drawn.
PlotsFrom(i, files, cols, nobs, config, failAt) ==
    LET name == PlotNames[i]
        perColumn == name \in {"acf_pacf", "qq"}
        \* the figures the plot draws, and the first one whose drawing raises
        figures == IF perColumn THEN Len(cols) ELSE 1
        failing == IF name = "acf_pacf" /\ 40 >= nobs \div 2 THEN 1
                   ELSE IF failAt[1] # name THEN figures + 1
                   ELSE IF perColumn THEN failAt[2] ELSE 1
        saved == {PlotFile(name, IF perColumn THEN cols[c] ELSE "") :
                      c \in 1 .. (IF failing <= figures THEN failing - 1 ELSE figures)}
    IN  IF i > Len(PlotNames) THEN [raised |-> FALSE, error |-> "", files |-> files]
        ELSE IF name \notin config.plots.keys
            THEN [raised |-> TRUE, error |-> "KeyError: plots", files |-> files]
        ELSE IF name \notin config.plots.on
            THEN PlotsFrom(i + 1, files, cols, nobs, config, failAt)
        ELSE IF failing = 1 /\ figures >= 1
            THEN [raised |-> TRUE, error |-> "plotting failed", files |-> files]
        ELSE IF figures >= 1 /\ "reports" \notin config.output_dirs
            THEN [raised |-> TRUE, error |-> "KeyError: reports", files |-> files]
        ELSE IF failing <= figures
            THEN [raised |-> TRUE, error |-> "plotting failed",
                  files |-> files \cup saved]
        ELSE PlotsFrom(i + 1, files \cup saved, cols, nobs, config, failAt)

\* create_plots(prices, returns, config) on a panel with these columns and
\* returns of nobs rows.
create_plots(cols, nobs, config, failAt) == PlotsFrom(1, {}, cols, nobs, config, failAt)

---------------------------------------------------------------------------
(* main *)

\* Outcomes of adfuller, kpss and acorr_ljungbox for a column in a run of
\* main: they raise on a series of n = 0 observations.
MainTestOutcomes(n) ==
    IF n = 0 THEN {Raised} ELSE {Raised, Returned(Fin(-3000), Fin(50))}

\* The tabular artifacts and the report.
SummaryCsv == <<"artifacts", "summary_stats.csv", "">>
StationarityCsv == <<"artifacts", "stationarity.csv", "">>
StylizedCsv == <<"artifacts", "stylized_facts.csv", "">>
ReportMd == <<"reports", "EDA_Report.md", "">>
\* The report cut short by a failed write.
ReportMdPartial == <<"reports", "EDA_Report.md", "partial">>

\* A statement of the try block raised: control goes to the except clause.
MainRaise(err) ==
    /\ mpc' = "except"
    /\ mError' = err

\* config = load_config(args.config)
MainLoadConfig ==
    /\ mpc = "load_config"
    /\ LET r == load_config(mCfgFile)
       IN  IF r.raised
           THEN MainRaise(r.error) /\ UNCHANGED mConfig
           ELSE mpc' = "setup_output_dirs" /\ mConfig' = r.value /\ UNCHANGED mError
    /\ UNCHANGED <<mCfgFile, mDataFile, mDirs, mPrices, mReturns, mTables, mFiles,
                   mPrinted, mExit>>
    /\ UNCHANGED <<hvars, svars, fvars, rvars, gvars, nvars>>

\* setup_output_dirs(config): one os.makedirs per value of output_dirs, in
\* the order of the configuration document; the documents explored name the
\* artifacts directory before the reports one.  failAt is the number of the
\* call that raises, 0 when none does; the directories made by the calls
\* before it stay.
MainSetupDirs(failAt) ==
    /\ mpc = "setup_output_dirs"
    /\ LET dirs == SelectSeq(<<"artifacts", "reports">>,
                             LAMBDA d : d \in mConfig.output_dirs)
       IN  /\ failAt <= Len(dirs)
           /\ IF failAt = 0
              THEN /\ mpc' = "load_data"
                   /\ mDirs' = mConfig.output_dirs
                   /\ UNCHANGED mError
              ELSE /\ MainRaise("OSError: makedirs")
                   /\ mDirs' = {dirs[i] : i \in 1 .. failAt - 1}
    /\ UNCHANGED <<mCfgFile, mDataFile, mConfig, mPrices, mReturns, mTables, mFiles,
                   mPrinted, mExit>>
    /\ UNCHANGED <<hvars, svars, fvars, rvars, gvars, nvars>>

\* prices = load_data(config)
MainLoadData ==
    /\ mpc = "load_data"
    /\ LET r == load_data(mConfig, mDataFile)
       IN  IF r.raised
           THEN /\ MainRaise(r.error)
                /\ mPrinted' = IF r.warned THEN mPrinted \cup {"date warning"}
                              ELSE mPrinted
                /\ UNCHANGED mPrices
           ELSE /\ mpc' = "compute_returns"
                /\ mPrices' = r.value.panel
                /\ mPrinted' = IF r.value.warned THEN mPrinted \cup {"date warning"}
                              ELSE mPrinted
                /\ UNCHANGED mError
    /\ UNCHANGED <<mCfgFile, mDataFile, mConfig, mDirs, mReturns, mTables, mFiles, mExit>>
    /\ UNCHANGED <<hvars, svars, fvars, rvars, gvars, nvars>>

\* returns = compute_returns(prices, config.return_type): return_type.lower()
\* raises AttributeError on a value that is not a string, and arithmetic on a
\* text column raises TypeError.
MainComputeReturns ==
    /\ mpc = "compute_returns"
    /\ IF LowerRaises(mConfig.return_type)
       THEN MainRaise("AttributeError: lower") /\ UNCHANGED mReturns
       ELSE IF \E t \in DOMAIN mPrices.rows : \E c \in DOMAIN mPrices.rows[t] :
             mPrices.rows[t][c] = Str
       THEN MainRaise("TypeError: unsupported operand") /\ UNCHANGED mReturns
       ELSE /\ mpc' = "summary_statistics"
            /\ mReturns' = compute_returns(mPrices.rows, mConfig.return_type)
            /\ UNCHANGED mError
    /\ UNCHANGED <<mCfgFile, mDataFile, mConfig, mDirs, mPrices, mTables, mFiles,
                   mPrinted, mExit>>
    /\ UNCHANGED <<hvars, svars, fvars, rvars, gvars, nvars>>

\* summary_statistics written so that it pops the rows it has counted off
\* the panel it is given.
MainSummary_consumesRows(emptyRaises) ==
    /\ mpc = "summary_statistics"
    /\ LET r == summary_statistics(mPrices.cols, mReturns, emptyRaises)
       IN  IF r.raised
           THEN MainRaise(r.error) /\ UNCHANGED <<mTables, mReturns>>
           ELSE /\ mpc' = "stationarity_tests"
                /\ mTables' = [mTables EXCEPT !.summary_stats = r.value,
                                              !.computed = @ \cup {"summary_stats"}]
                /\ mReturns' = <<>>
                /\ UNCHANGED mError
    /\ UNCHANGED <<mCfgFile, mDataFile, mConfig, mDirs, mPrices, mFiles,
                   mPrinted, mExit>>
    /\ UNCHANGED <<hvars, svars, fvars, rvars, gvars, nvars>>

\* summary_stats = summary_statistics(returns)
MainSummary(emptyRaises) ==
    /\ mpc = "summary_statistics"
    /\ LET r == summary_statistics(mPrices.cols, mReturns, emptyRaises)
       IN  IF r.raised
           THEN MainRaise(r.error) /\ UNCHANGED mTables
           ELSE /\ mpc' = "stationarity_tests"
                /\ mTables' = [mTables EXCEPT !.summary_stats = r.value,
                                              !.computed = @ \cup {"summary_stats"}]
                /\ UNCHANGED mError
    /\ UNCHANGED <<mCfgFile, mDataFile, mConfig, mDirs, mPrices, mReturns, mFiles,
                   mPrinted, mExit>>
    /\ UNCHANGED <<hvars, svars, fvars, rvars, gvars, nvars>>

\* stationarity = stationarity_tests(returns, config.tests['adf_alpha'])
MainStationarity(outs) ==
    /\ mpc = "stationarity_tests"
    /\ \A c \in DOMAIN outs : outs[c] \in MainTestOutcomes(Len(mReturns))
    /\ IF "adf_alpha" \notin mConfig.tests
       THEN MainRaise("KeyError: adf_alpha") /\ UNCHANGED mTables
       ELSE /\ mpc' = "stylized_facts"
            /\ mTables' = [mTables EXCEPT
                 !.stationarity =
                     stationarity_tests(mPrices.cols,
                         [c \in DOMAIN mPrices.cols |->
                             [adf |-> outs[c], kpss |-> outs[c]]],
                         mConfig.adf_alpha),
                 !.computed = @ \cup {"stationarity"}]
            /\ UNCHANGED mError
    /\ UNCHANGED <<mCfgFile, mDataFile, mConfig, mDirs, mPrices, mReturns, mFiles,
                   mPrinted, mExit>>
    /\ UNCHANGED <<hvars, svars, fvars, rvars, gvars, nvars>>

\* stylized_facts_df = stylized_facts(returns, config)
\* On a series that is not empty acorr_ljungbox may also return a DataFrame
\* (see LbOutcomes), for all columns or for none; the returns, in
\* thousandths, are handed on in ten-thousandths.  For a label that several
\* columns carry returns[col] is the frame of these columns, and
\* series.kurtosis() is then a pandas Series with one entry per column: the
\* cell holds that Series (here by its number of entries, the entries
\* themselves are not kept), not a float.  The frame has the rows of the
\* panel, so the Hill cell is as for one column below MinTail rows.
MainStylized(lbs) ==
    /\ mpc = "stylized_facts"
    /\ \A c \in DOMAIN lbs :
          \/ lbs[c] \in MainTestOutcomes(Len(mReturns))
          \/ Len(mReturns) > 0 /\ lbs[c] \in LbOutcomes /\ lbs[c].stat.k = "label"
    /\ \A c, d \in DOMAIN lbs :
          ~lbs[c].raised /\ ~lbs[d].raised =>
              (lbs[c].stat.k = "label") = (lbs[d].stat.k = "label")
    /\ LET series == [c \in DOMAIN mPrices.cols |->
                         [t \in DOMAIN Column(mReturns, c) |->
                             [v |-> 10 * Column(mReturns, c)[t].v, k |-> 1]]]
           \* het_arch returns its four values
           arch == [raised |-> FALSE,
                    ret |-> <<Fin(8400), Fin(38), Fin(4500), Fin(35)>>]
           outs == [c \in DOMAIN mPrices.cols |-> [lb |-> lbs[c], arch |-> arch]]
           r == stylized_facts(mPrices.cols, series, outs, mConfig)
           sameLabel(i) == {j \in DOMAIN mPrices.cols : mPrices.cols[j] = mPrices.cols[i]}
           rows == [i \in DOMAIN r.rows |->
                       IF Cardinality(sameLabel(i)) = 1 THEN r.rows[i]
                       ELSE [r.rows[i] EXCEPT !.Excess_Kurtosis =
                                [k |-> "series", v |-> Cardinality(sameLabel(i))]]]
       IN  /\ IF r.raised
              THEN MainRaise("KeyError: hill_threshold_quantile") /\ UNCHANGED mTables
              ELSE /\ mpc' = "create_plots"
                   /\ mTables' = [mTables EXCEPT !.stylized_facts = rows,
                                                 !.computed = @ \cup {"stylized_facts"}]
                   /\ UNCHANGED mError
    /\ UNCHANGED <<mCfgFile, mDataFile, mConfig, mDirs, mPrices, mReturns, mFiles,
                   mPrinted, mExit>>
    /\ UNCHANGED <<hvars, svars, fvars, rvars, gvars, nvars>>

\* main with the first to_csv statement moved before create_plots.
MainPlots_afterSaving(failAt) ==
    /\ mpc = "create_plots"
    /\ LET r == create_plots(mPrices.cols, Len(mReturns), mConfig, failAt)
       IN  /\ mFiles' = mFiles \cup {SummaryCsv} \cup r.files
           /\ IF r.raised THEN MainRaise(r.error)
              ELSE mpc' = "save_summary" /\ UNCHANGED mError
    /\ UNCHANGED <<mCfgFile, mDataFile, mConfig, mDirs, mPrices, mReturns, mTables,
                   mPrinted, mExit>>
    /\ UNCHANGED <<hvars, svars, fvars, rvars, gvars, nvars>>

\* create_plots(prices, returns, config): the files saved before an
\* exception stay.
MainPlots(failAt) ==
    /\ mpc = "create_plots"
    /\ LET r == create_plots(mPrices.cols, Len(mReturns), mConfig, failAt)
       IN  /\ mFiles' = mFiles \cup r.files
           /\ IF r.raised THEN MainRaise(r.error)
              ELSE mpc' = "save_summary" /\ UNCHANGED mError
    /\ UNCHANGED <<mCfgFile, mDataFile, mConfig, mDirs, mPrices, mReturns, mTables,
                   mPrinted, mExit>>
    /\ UNCHANGED <<hvars, svars, fvars, rvars, gvars, nvars>>

\* One of the three to_csv statements: it writes file and goes on to next.
MainSave(at, file, next, ioOk) ==
    /\ mpc = at
    /\ IF "artifacts" \notin mConfig.output_dirs
       THEN MainRaise("KeyError: artifacts") /\ UNCHANGED mFiles
       ELSE IF ~ioOk THEN MainRaise("OSError: to_csv") /\ UNCHANGED mFiles
       ELSE mpc' = next /\ mFiles' = mFiles \cup {file} /\ UNCHANGED mError
    /\ UNCHANGED <<mCfgFile, mDataFile, mConfig, mDirs, mPrices, mReturns, mTables,
                   mPrinted, mExit>>
    /\ UNCHANGED <<hvars, svars, fvars, rvars, gvars, nvars>>

MainSaveSummary(ioOk) == MainSave("save_summary", SummaryCsv, "save_stationarity", ioOk)
MainSaveStationarity(ioOk) ==
    MainSave("save_stationarity", StationarityCsv, "save_stylized", ioOk)
MainSaveStylized(ioOk) == MainSave("save_stylized", StylizedCsv, "generate_report", ioOk)

\* generate_report(...): open(report_path, 'w') fails, or a write fails and
\* leaves the head of the report; it prints its own error and re-raises.
\* When a column label occurs twice in the panel (price_columns_include names
\* a column twice), returns[col] is a frame and the cells of the summary
\* table are Series: 'not pd.isna(row["Mean"])' then has no truth value and
\* raises ValueError at the first row, after the head was written.
MainReport(io) ==
    /\ mpc = "generate_report"
    /\ IF "reports" \notin mConfig.output_dirs
       THEN MainRaise("KeyError: reports") /\ UNCHANGED <<mFiles, mPrinted>>
       ELSE IF io # "ok"
       THEN /\ MainRaise("OSError: report")
            /\ mPrinted' = mPrinted \cup {"Error in report generation"}
            /\ mFiles' = IF io = "write fails" THEN mFiles \cup {ReportMdPartial}
                         ELSE mFiles
       ELSE IF \E i, j \in DOMAIN mPrices.cols : i # j /\ mPrices.cols[i] = mPrices.cols[j]
       THEN /\ MainRaise("ValueError: The truth value of a Series is ambiguous")
            /\ mPrinted' = mPrinted \cup {"Error in report generation"}
            /\ mFiles' = mFiles \cup {ReportMdPartial}
       ELSE /\ mpc' = "success"
            /\ mFiles' = mFiles \cup {ReportMd}
            /\ mPrinted' = mPrinted \cup {"Report saved"}
            /\ UNCHANGED mError
    /\ UNCHANGED <<mCfgFile, mDataFile, mConfig, mDirs, mPrices, mReturns, mTables,
                   mExit>>
    /\ UNCHANGED <<hvars, svars, fvars, rvars, gvars, nvars>>

\* The try block ends: the success messages, and main returns (status 0).
MainSuccess ==
    /\ mpc = "success"
    /\ mpc' = "exited"
    /\ mPrinted' = mPrinted \cup {"EDA analysis completed successfully"}
    /\ mExit' = 0
    /\ UNCHANGED <<mCfgFile, mDataFile, mConfig, mDirs, mPrices, mReturns, mTables,
                   mFiles, mError>>
    /\ UNCHANGED <<hvars, svars, fvars, rvars, gvars, nvars>>

\* The except clause without its sys.exit(1): main returns, status 0.
MainExcept_noExit ==
    /\ mpc = "except"
    /\ mpc' = "exited"
    /\ mPrinted' = mPrinted \cup {"Error during EDA analysis"}
    /\ mExit' = 0
    /\ UNCHANGED <<mCfgFile, mDataFile, mConfig, mDirs, mPrices, mReturns, mTables, mFiles,
                   mError>>
    /\ UNCHANGED <<hvars, svars, fvars, rvars, gvars, nvars>>

\* except Exception as e: print the diagnostic, sys.exit(1).
MainExcept ==
    /\ mpc = "except"
    /\ mpc' = "exited"
    /\ mPrinted' = mPrinted \cup {"Error during EDA analysis"}
    /\ mExit' = 1
    /\ UNCHANGED <<mCfgFile, mDataFile, mConfig, mDirs, mPrices, mReturns, mTables,
                   mFiles, mError>>
    /\ UNCHANGED <<hvars, svars, fvars, rvars, gvars, nvars>>

\* The positions of the columns of the price panel, once it is loaded.
MainColumns == IF mPrices = <<>> THEN {} ELSE DOMAIN mPrices.cols

MainNext ==
    \/ MainLoadConfig
    \/ \E failAt \in 0 .. 2 : MainSetupDirs(failAt)
    \/ MainLoadData
    \/ MainComputeReturns
    \/ \E emptyRaises \in BOOLEAN : MainSummary(emptyRaises)
    \/ \E outs \in [MainColumns -> MainTestOutcomes(1)] : MainStationarity(outs)
    \/ \E lbs \in [MainColumns -> MainTestOutcomes(1) \cup LbOutcomes] : MainStylized(lbs)
    \/ \E failAt \in {<<"", 0>>, <<"timeseries", 1>>, <<"returns", 1>>,
                       <<"heatmap", 1>>, <<"acf_pacf", 1>>, <<"acf_pacf", 2>>,
                       <<"qq", 1>>, <<"qq", 2>>} :
            MainPlots(failAt)
    \/ \E ioOk \in BOOLEAN : MainSaveSummary(ioOk)
    \/ \E ioOk \in BOOLEAN : MainSaveStationarity(ioOk)
    \/ \E ioOk \in BOOLEAN : MainSaveStylized(ioOk)
    \/ \E io \in {"ok", "open fails", "write fails"} : MainReport(io)
    \/ MainSuccess
    \/ MainExcept

---------------------------------------------------------------------------
(* generate_report: the three tables of the report *)

\* The numeric fields of a row of each table, in the order they are rendered.
SummaryFields == <<"Mean", "Std", "Skewness", "Excess_Kurtosis", "JB_p_value">>
AdfFields == <<"ADF_Statistic", "ADF_p_value">>
KpssFields == <<"KPSS_Statistic", "KPSS_p_value">>
StylizedFields ==
    <<"Ljung_Box_p_value", "ARCH_LM_p_value", "Hill_Tail_Index", "Excess_Kurtosis">>

\* The placeholder written for a field that is not rendered as a number.
NotAvailable == [text |-> "N/A", v |-> 0]

\* pd.isna(x): true of NaN, false of +/-inf, of a number and of a string.
IsNa(x) == x.k = "nan"

\* isinstance(x, (int, float)): a float (NaN and +/-inf included), not a string.
IsIntOrFloat(x) == x.k \in {"nan", "inf", "fin"}

\* f"{x:.3f}" and f"{x:.6f}": the digits of a number, 'inf' or 'nan'; the
\* format code 'f' raises ValueError on a string.
FormatFixed(x) ==
    IF x.k = "str" THEN Raise("ValueError: format code 'f'")
    ELSE Ok([text |-> IF x.k = "fin" THEN "digits" ELSE x.k, v |-> x.v])

\* The conditional expression that renders one cell: format if not
\* pd.isna(x) (summary statistics), and format if not pd.isna(x) and
\* isinstance(x, (int, float)) in the tables that are guarded.
RenderCell(x, guarded) ==
    IF ~IsNa(x) /\ (guarded => IsIntOrFloat(x)) THEN FormatFixed(x)
    ELSE Ok(NotAvailable)

\* The body of one of the four loops: the cells are rendered in order, the
\* first one that raises ends the loop, otherwise the table row is written.
RenderRow(row, fields, guarded) ==
    LET cells == [i \in DOMAIN fields |-> RenderCell(row[fields[i]], guarded)]
    IN  IF \E i \in DOMAIN fields : cells[i].raised
        THEN Raise("ValueError: format code 'f'")
        ELSE Ok([Series |-> row.Series,
                 cells |-> [i \in DOMAIN fields |-> cells[i].value]])

\* with open(report_path, 'w') as f, and the head of the report.
ReportOpen(ioOk) ==
    /\ gpc = "open"
    /\ gpc' = IF ioOk THEN "summary" ELSE "OSError"
    /\ UNCHANGED <<gTables, gRow, gLines>>
    /\ UNCHANGED <<hvars, svars, fvars, rvars, mvars, nvars>>

\* One step of `for _, row in table.iterrows()`: the next row is rendered
\* and written, an exception leaves the report as it is and is re-raised,
\* and after the last row the next section begins.
ReportLoop(section, table, fields, guarded, next) ==
    /\ gpc = section
    /\ IF gRow = Len(table)
       THEN gpc' = next /\ gRow' = 0 /\ UNCHANGED gLines
       ELSE LET r == RenderRow(table[gRow + 1], fields, guarded)
            IN  IF r.raised
                THEN gpc' = "ValueError" /\ UNCHANGED <<gRow, gLines>>
                ELSE /\ gLines' = Append(gLines, [section |-> section,
                                                  Series |-> r.value.Series,
                                                  cells |-> r.value.cells])
                     /\ gRow' = gRow + 1
                     /\ UNCHANGED gpc
    /\ UNCHANGED gTables
    /\ UNCHANGED <<hvars, svars, fvars, rvars, mvars, nvars>>

ReportSummaryRow ==
    ReportLoop("summary", gTables.summary_stats, SummaryFields, FALSE, "adf")

ReportAdfRow == ReportLoop("adf", gTables.stationarity, AdfFields, TRUE, "kpss")

ReportKpssRow ==
    ReportLoop("kpss", gTables.stationarity, KpssFields, TRUE, "stylized")

ReportStylizedRow ==
    ReportLoop("stylized", gTables.stylized_facts, StylizedFields, TRUE, "guide")

\* The interpretation guide and the lists of plots and files; the file is
\* closed and 'Report saved' is printed.
ReportGuide ==
    /\ gpc = "guide"
    /\ gpc' = "done"
    /\ UNCHANGED <<gTables, gRow, gLines>>
    /\ UNCHANGED <<hvars, svars, fvars, rvars, mvars, nvars>>

ReportNext ==
    \/ \E ioOk \in BOOLEAN : ReportOpen(ioOk)
    \/ ReportSummaryRow
    \/ ReportAdfRow
    \/ ReportKpssRow
    \/ ReportStylizedRow
    \/ ReportGuide

---------------------------------------------------------------------------
(* rename_nf_residuals *)

\* A file name is the sequence of the parts that '_' separates, the
\* extension .csv left out.  The parts that [a-zA-Z]+ matches, and among
\* them those that [A-Z]+ matches.
UpperParts == {"USDZAR", "SGARCH", "TS", "CV"}
AlphaParts ==
    UpperParts \cup {"sGARCH", "sgarch", "sstd", "fx", "equity", "residuals",
                     "synthetic", "Chrono", "Split", "notes"}

\* str.lower() of a part.
LowerCase(part) ==
    CASE part \in {"sGARCH", "SGARCH"} -> "sgarch"
      [] part = "USDZAR" -> "usdzar"
      [] part = "TS" -> "ts"
      [] part = "CV" -> "cv"
      [] part = "Chrono" -> "chrono"
      [] part = "Split" -> "split"
      [] OTHER -> part

\* name[from ..] is the literal tail of a pattern.
EndsWith(name, from, tail) ==
    /\ Len(name) = from + Len(tail) - 1
    /\ \A i \in DOMAIN tail : name[from + i - 1] = tail[i]

\* The groups of the first of the four patterns that matches the name, <<>>
\* when none does.
MatchGroups(name) ==
    IF /\ Len(name) >= 4
       /\ name[1] \in AlphaParts /\ name[2] \in AlphaParts /\ name[3] \in AlphaParts
       /\ name[4] \in UpperParts
       /\ EndsWith(name, 5, <<"residuals", "synthetic">>)
    THEN <<name[1], name[2], name[3], name[4]>>
    ELSE IF /\ Len(name) >= 5
            /\ name[1] \in AlphaParts /\ name[2] \in UpperParts
            /\ name[3] = "residuals"
            /\ name[4] \in AlphaParts /\ name[5] \in AlphaParts
            /\ EndsWith(name, 6, <<"residuals", "synthetic", "synthetic">>)
    THEN <<name[1], name[2], name[4], name[5]>>
    ELSE IF /\ Len(name) >= 7
            /\ name[1] \in AlphaParts /\ name[2] \in UpperParts
            /\ \/ name[3] = "TS" /\ name[4] = "CV"
               \/ name[3] = "Chrono" /\ name[4] = "Split"
            /\ name[5] = "residuals"
            /\ name[6] \in AlphaParts /\ name[7] \in AlphaParts
            /\ EndsWith(name, 8, <<"residuals", "synthetic", "synthetic">>)
    THEN <<name[1], name[2], name[6], name[7]>>
    ELSE <<>>

\* standardize_filename(filename): config_dist_assettype_asset_residuals_
\* synthetic.csv, or the name as it is when no pattern matches.
standardize_filename(name) ==
    LET g == MatchGroups(name)
    IN  IF g = <<>> THEN name
        ELSE IF g[1] \in {"fx", "equity"}
        THEN <<g[3], g[4], g[1], g[2], "residuals", "synthetic">>
        ELSE <<g[1], g[2], g[3], g[4], "residuals", "synthetic">>

\* The name main moves a file to: the first part of the standardized name
\* in lower case when the name has two parts or more.
TargetName(name) ==
    LET new == standardize_filename(name)
    IN  IF Len(new) >= 2 THEN [new EXCEPT ![1] = LowerCase(new[1])] ELSE new

\* main up to the loop: it returns when the source directory does not exist,
\* otherwise it creates the target directory and lists the source files.
RenameStart ==
    /\ npc = "start"
    /\ IF "nf_generated_residuals" \notin nDirs
       THEN npc' = "done" /\ UNCHANGED <<nDirs, nTodo>>
       ELSE /\ npc' = "loop"
            /\ nDirs' = nDirs \cup {"data/residuals_by_model"}
            /\ nTodo' = nSource
    /\ UNCHANGED <<nSource, nTarget, nMoved, nReported>>
    /\ UNCHANGED <<hvars, svars, fvars, rvars, mvars, gvars>>

\* One turn of the loop: os.system('git mv ...') does not raise whatever git
\* does, so the pair is appended to moved_files also when git moved nothing
\* (gitOk is false: no repository or the file is not tracked; or the
\* destination exists).
RenameMove(file, gitOk) ==
    /\ npc = "loop"
    /\ file \in nTodo
    /\ LET new == TargetName(file)
           moved == gitOk /\ new \notin nTarget
       IN  /\ nSource' = IF moved THEN nSource \ {file} ELSE nSource
           /\ nTarget' = IF moved THEN nTarget \cup {new} ELSE nTarget
           /\ nMoved' = Append(nMoved, <<file, new>>)
    /\ nTodo' = nTodo \ {file}
    /\ UNCHANGED <<npc, nDirs, nReported>>
    /\ UNCHANGED <<hvars, svars, fvars, rvars, mvars, gvars>>

\* After the loop: the count is printed and an empty source directory is
\* removed.
RenameFinish ==
    /\ npc = "loop"
    /\ nTodo = {}
    /\ npc' = "done"
    /\ nReported' = Len(nMoved)
    /\ nDirs' = IF nSource = {} THEN nDirs \ {"nf_generated_residuals"} ELSE nDirs
    /\ UNCHANGED <<nSource, nTarget, nTodo, nMoved>>
    /\ UNCHANGED <<hvars, svars, fvars, rvars, mvars, gvars>>

RenameNext ==
    \/ RenameStart
    \/ \E file \in nTodo, gitOk \in BOOLEAN : RenameMove(file, gitOk)
    \/ RenameFinish

---------------------------------------------------------------------------
(* Specifications *)

\* The three result tables before they are computed.
NoTables ==
    [computed |-> {}, summary_stats |-> <<>>, stationarity |-> <<>>,
     stylized_facts |-> <<>>]

\* hill_tail_index on its own: the caller builds a series and calls it.
HillInit ==
    /\ hpc = "build" /\ hSeries = <<>> /\ hQ = <<19, 20>> /\ hResult = NaN
    /\ spc = "idle" /\ sAlpha = NaN /\ sCols = <<>> /\ sLib = <<>> /\ sRows = <<>>
    /\ fpc = "idle" /\ fCfg = <<>> /\ fCols = <<>> /\ fSeries = <<>>
    /\ fLib = <<>> /\ fRows = <<>>
    /\ rpc = "idle" /\ rPrices = <<>> /\ rType = "log" /\ rReturns = <<>>
    /\ rSummary = <<>>
    /\ mpc = "idle" /\ mError = "" /\ mCfgFile = <<>> /\ mDataFile = <<>> /\ mConfig = <<>>
    /\ mDirs = {} /\ mPrices = <<>> /\ mReturns = <<>> /\ mTables = NoTables
    /\ mFiles = {} /\ mPrinted = {} /\ mExit = -1
    /\ gpc = "idle" /\ gTables = <<>> /\ gRow = 0 /\ gLines = <<>>
    /\ npc = "idle" /\ nDirs = {} /\ nSource = {} /\ nTarget = {} /\ nTodo = {}
    /\ nMoved = <<>> /\ nReported = -1

SpecHill == HillInit /\ [][HillNext]_vars

\* stationarity_tests on its own, on a panel of 1 .. MaxCols columns.
StatInit ==
    /\ hpc = "idle" /\ hSeries = <<>> /\ hQ = <<19, 20>> /\ hResult = NaN
    /\ spc = "loop"
    /\ sAlpha \in Alphas
    /\ sCols \in {SubSeq(ColNames, 1, n) : n \in 1 .. MaxCols}
    /\ sLib = <<>>
    /\ sRows = <<>>
    /\ fpc = "idle" /\ fCfg = <<>> /\ fCols = <<>> /\ fSeries = <<>>
    /\ fLib = <<>> /\ fRows = <<>>
    /\ rpc = "idle" /\ rPrices = <<>> /\ rType = "log" /\ rReturns = <<>>
    /\ rSummary = <<>>
    /\ mpc = "idle" /\ mError = "" /\ mCfgFile = <<>> /\ mDataFile = <<>> /\ mConfig = <<>>
    /\ mDirs = {} /\ mPrices = <<>> /\ mReturns = <<>> /\ mTables = NoTables
    /\ mFiles = {} /\ mPrinted = {} /\ mExit = -1
    /\ gpc = "idle" /\ gTables = <<>> /\ gRow = 0 /\ gLines = <<>>
    /\ npc = "idle" /\ nDirs = {} /\ nSource = {} /\ nTarget = {} /\ nTodo = {}
    /\ nMoved = <<>> /\ nReported = -1

SpecStat == StatInit /\ [][StatNext]_vars

\* stylized_facts on its own, on a panel of 1 .. MaxCols columns.
FactsInit ==
    /\ hpc = "idle" /\ hSeries = <<>> /\ hQ = <<19, 20>> /\ hResult = NaN
    /\ spc = "idle" /\ sAlpha = NaN /\ sCols = <<>> /\ sLib = <<>> /\ sRows = <<>>
    /\ fpc = "loop"
    /\ fCfg \in FactsConfigs
    /\ \E n \in 1 .. MaxCols :
          /\ fCols = SubSeq(ColNames, 1, n)
          /\ fSeries \in [1 .. n -> SeriesPool]
    /\ fLib = <<>>
    /\ fRows = <<>>
    /\ rpc = "idle" /\ rPrices = <<>> /\ rType = "log" /\ rReturns = <<>>
    /\ rSummary = <<>>
    /\ mpc = "idle" /\ mError = "" /\ mCfgFile = <<>> /\ mDataFile = <<>> /\ mConfig = <<>>
    /\ mDirs = {} /\ mPrices = <<>> /\ mReturns = <<>> /\ mTables = NoTables
    /\ mFiles = {} /\ mPrinted = {} /\ mExit = -1
    /\ gpc = "idle" /\ gTables = <<>> /\ gRow = 0 /\ gLines = <<>>
    /\ npc = "idle" /\ nDirs = {} /\ nSource = {} /\ nTarget = {} /\ nTodo = {}
    /\ nMoved = <<>> /\ nReported = -1

SpecFacts == FactsInit /\ [][FactsNext]_vars

\* compute_returns on its own: the caller builds a two-column price panel.
ReturnsInit ==
    /\ hpc = "idle" /\ hSeries = <<>> /\ hQ = <<19, 20>> /\ hResult = NaN
    /\ spc = "idle" /\ sAlpha = NaN /\ sCols = <<>> /\ sLib = <<>> /\ sRows = <<>>
    /\ fpc = "idle" /\ fCfg = <<>> /\ fCols = <<>> /\ fSeries = <<>>
    /\ fLib = <<>> /\ fRows = <<>>
    /\ rpc = "build" /\ rPrices = <<>> /\ rType = "log" /\ rReturns = <<>>
    /\ rSummary = <<>>
    /\ mpc = "idle" /\ mError = "" /\ mCfgFile = <<>> /\ mDataFile = <<>> /\ mConfig = <<>>
    /\ mDirs = {} /\ mPrices = <<>> /\ mReturns = <<>> /\ mTables = NoTables
    /\ mFiles = {} /\ mPrinted = {} /\ mExit = -1
    /\ gpc = "idle" /\ gTables = <<>> /\ gRow = 0 /\ gLines = <<>>
    /\ npc = "idle" /\ nDirs = {} /\ nSource = {} /\ nTarget = {} /\ nTodo = {}
    /\ nMoved = <<>> /\ nReported = -1

SpecReturns == ReturnsInit /\ [][ReturnsNext]_vars

\* generate_report on its own, on tables of 1 .. MaxReportRows series whose
\* rows are complete, hold missing values, a text cell or an infinite value.
CellRows(series, fields, extra) ==
    LET row(first, other) ==
            [f \in {"Series"} \cup SeqToSet(fields) \cup DOMAIN extra |->
                IF f = "Series" THEN series
                ELSE IF f \in DOMAIN extra THEN extra[f]
                ELSE IF f = fields[1] THEN first ELSE other]
    IN  {row(Fin(1500), Fin(250)), row(NaN, NaN), row(Fin(1500), Str),
         row(PInf, Fin(250))}

ReportTablesOf(n, fields, extra) ==
    {t \in [1 .. n -> UNION {CellRows(ColNames[i], fields, extra) : i \in 1 .. n}] :
        \A i \in 1 .. n : t[i].Series = ColNames[i]}

ReportInit ==
    /\ hpc = "idle" /\ hSeries = <<>> /\ hQ = <<19, 20>> /\ hResult = NaN
    /\ spc = "idle" /\ sAlpha = NaN /\ sCols = <<>> /\ sLib = <<>> /\ sRows = <<>>
    /\ fpc = "idle" /\ fCfg = <<>> /\ fCols = <<>> /\ fSeries = <<>>
    /\ fLib = <<>> /\ fRows = <<>>
    /\ rpc = "idle" /\ rPrices = <<>> /\ rType = "log" /\ rReturns = <<>>
    /\ rSummary = <<>>
    /\ mpc = "idle" /\ mError = "" /\ mCfgFile = <<>> /\ mDataFile = <<>> /\ mConfig = <<>>
    /\ mDirs = {} /\ mPrices = <<>> /\ mReturns = <<>> /\ mTables = NoTables
    /\ mFiles = {} /\ mPrinted = {} /\ mExit = -1
    /\ gpc = "open" /\ gRow = 0 /\ gLines = <<>>
    /\ npc = "idle" /\ nDirs = {} /\ nSource = {} /\ nTarget = {} /\ nTodo = {}
    /\ nMoved = <<>> /\ nReported = -1
    /\ \E n \in 1 .. MaxReportRows :
        \E su \in ReportTablesOf(n, SummaryFields, <<>>),
           st \in ReportTablesOf(n, AdfFields \o KpssFields,
                    [ADF_Result |-> "Stationary", KPSS_Result |-> "Stationary"]),
           sf \in ReportTablesOf(n, StylizedFields, <<>>) :
             gTables = [summary_stats |-> su, stationarity |-> st,
                        stylized_facts |-> sf]

SpecReport == ReportInit /\ [][ReportNext]_vars

\* hill_tail_index on series of 170 to 172 + MaxLen observations: a first
\* run of 170 to 172 equal observations, then shorter runs.
LongRuns == {[v |-> v, k |-> k] : v \in {-1, 1}, k \in 170 .. 172}

HillLongInit ==
    /\ hpc = "build" /\ hQ = <<19, 20>> /\ hResult = NaN
    /\ \E r \in LongRuns : hSeries = <<r>>
    /\ spc = "idle" /\ sAlpha = NaN /\ sCols = <<>> /\ sLib = <<>> /\ sRows = <<>>
    /\ fpc = "idle" /\ fCfg = <<>> /\ fCols = <<>> /\ fSeries = <<>>
    /\ fLib = <<>> /\ fRows = <<>>
    /\ rpc = "idle" /\ rPrices = <<>> /\ rType = "log" /\ rReturns = <<>>
    /\ rSummary = <<>>
    /\ mpc = "idle" /\ mError = "" /\ mCfgFile = <<>> /\ mDataFile = <<>> /\ mConfig = <<>>
    /\ mDirs = {} /\ mPrices = <<>> /\ mReturns = <<>> /\ mTables = NoTables
    /\ mFiles = {} /\ mPrinted = {} /\ mExit = -1
    /\ gpc = "idle" /\ gTables = <<>> /\ gRow = 0 /\ gLines = <<>>
    /\ npc = "idle" /\ nDirs = {} /\ nSource = {} /\ nTarget = {} /\ nTodo = {}
    /\ nMoved = <<>> /\ nReported = -1

SpecHillLong == HillLongInit /\ [][HillLongNext]_vars

\* The files that can be in nf_generated_residuals: the plain, the
\* fx-first, the TS_CV and the Chrono_Split name of one model, the plain
\* name with the configuration in capitals, another model, and a file that
\* is not a residual file.
SourceNames ==
    {<<"sGARCH", "sstd", "fx", "USDZAR", "residuals", "synthetic">>,
     <<"fx", "USDZAR", "residuals", "sGARCH", "sstd", "residuals", "synthetic",
       "synthetic">>,
     <<"fx", "USDZAR", "TS", "CV", "residuals", "sGARCH", "sstd", "residuals",
       "synthetic", "synthetic">>,
     <<"fx", "USDZAR", "Chrono", "Split", "residuals", "sGARCH", "sstd",
       "residuals", "synthetic", "synthetic">>,
     <<"SGARCH", "sstd", "fx", "USDZAR", "residuals", "synthetic">>,
     <<"equity", "USDZAR", "residuals", "sgarch", "sstd", "residuals",
       "synthetic", "synthetic">>,
     <<"notes">>}

RenameInit ==
    /\ hpc = "idle" /\ hSeries = <<>> /\ hQ = <<19, 20>> /\ hResult = NaN
    /\ spc = "idle" /\ sAlpha = NaN /\ sCols = <<>> /\ sLib = <<>> /\ sRows = <<>>
    /\ fpc = "idle" /\ fCfg = <<>> /\ fCols = <<>> /\ fSeries = <<>>
    /\ fLib = <<>> /\ fRows = <<>>
    /\ rpc = "idle" /\ rPrices = <<>> /\ rType = "log" /\ rReturns = <<>>
    /\ rSummary = <<>>
    /\ mpc = "idle" /\ mError = "" /\ mCfgFile = <<>> /\ mDataFile = <<>> /\ mConfig = <<>>
    /\ mDirs = {} /\ mPrices = <<>> /\ mReturns = <<>> /\ mTables = NoTables
    /\ mFiles = {} /\ mPrinted = {} /\ mExit = -1
    /\ gpc = "idle" /\ gTables = <<>> /\ gRow = 0 /\ gLines = <<>>
    /\ npc = "start" /\ nTarget = {} /\ nTodo = {} /\ nMoved = <<>> /\ nReported = -1
    /\ \/ nDirs = {} /\ nSource = {}
       \/ /\ nDirs = {"nf_generated_residuals"}
          /\ nSource \in {fs \in SUBSET SourceNames : Cardinality(fs) <= MaxFiles}

SpecRename == RenameInit /\ [][RenameNext]_vars

---------------------------------------------------------------------------
(* The runs of main that are explored *)

\* Configuration files: missing, not YAML, empty, a field of EDAConfig
\* missing, and complete documents that differ in the keys of tests, tails,
\* output_dirs and plots.
ConfigFiles ==
    {[exists |-> FALSE, yaml |-> "ok", doc |-> BaseDoc],
     [exists |-> TRUE, yaml |-> "invalid", doc |-> BaseDoc],
     [exists |-> TRUE, yaml |-> "empty", doc |-> BaseDoc],
     [exists |-> TRUE, yaml |-> "ok", doc |-> [BaseDoc EXCEPT !.top = TopFields \ {"tests"}]]}
    \cup
    {[exists |-> TRUE, yaml |-> "ok",
      doc |-> [BaseDoc EXCEPT !.tests = ts, !.tails = tl, !.output_dirs = od, !.plots = pl]] :
        ts \in SUBSET {"adf_alpha", "lb_lags", "arch_lm_lags"},
        tl \in SUBSET {"hill_threshold_quantile"},
        od \in SUBSET {"artifacts", "reports"},
        pl \in {[keys |-> SeqToSet(PlotNames), on |-> {}],
                [keys |-> SeqToSet(PlotNames), on |-> SeqToSet(PlotNames)],
                [keys |-> SeqToSet(PlotNames), on |-> {"timeseries", "qq"}],
                [keys |-> SeqToSet(PlotNames) \ {"qq"}, on |-> {"timeseries"}]}}

\* Complete configurations that differ in the preprocessing of the data, with
\* no plot switched on.
DataConfigs ==
    {[exists |-> TRUE, yaml |-> "ok",
      doc |-> [BaseDoc EXCEPT !.dropna = dn, !.resample = rs, !.return_type = rt,
                              !.plots.on = {}]] :
        dn \in BOOLEAN, rs \in {"", "W"}, rt \in ReturnTypes}

\* Complete configurations that differ in the selection of the columns.
LayoutConfigs ==
    {[exists |-> TRUE, yaml |-> "ok",
      doc |-> [BaseDoc EXCEPT !.date_column = dc, !.parse_dates = pd,
                              !.price_columns_include = inc,
                              !.price_columns_exclude = exc, !.resample = rs]] :
        dc \in {"", "Date", "when"}, pd \in BOOLEAN,
        inc \in {<<>>, <<"A">>, <<"Z">>, <<"B">>, <<"A", "A">>},
        exc \in {{}, {"A"}}, rs \in {"", "W"}}

\* The columns Date, A, B of the data file.
BaseCols ==
    <<[name |-> "Date", kind |-> "date"], [name |-> "A", kind |-> "num"],
      [name |-> "B", kind |-> "num"]>>
\* The data files with columns Date, A, B and n rows in date order, the
\* dates falling in the resampling periods 1 and 2.
TablesOfLen(n) ==
    {[exists |-> TRUE, readable |-> TRUE, cols |-> BaseCols,
      rows |-> [i \in 1 .. n |-> [t |-> ts[i], cells |-> <<Str, as[i], bs[i]>>]]] :
        ts \in {f \in [1 .. n -> 1 .. 2] : \A i \in 1 .. n - 1 : f[i] <= f[i + 1]},
        as \in [1 .. n -> {NaN, Fin(1000), Fin(2000)}],
        bs \in [1 .. n -> {NaN, Fin(1000)}]}

DataFiles == UNION {TablesOfLen(n) : n \in 0 .. MaxTableRows}

\* A data file of two complete rows.
BaseData ==
    [exists |-> TRUE, readable |-> TRUE, cols |-> BaseCols,
     rows |-> <<[t |-> 1, cells |-> <<Str, Fin(1000), Fin(1000)>>],
                [t |-> 2, cells |-> <<Str, Fin(2000), Fin(1000)>>]>>]

\* Data files that differ in their columns, and a missing and an unreadable one.
LayoutFiles ==
    {BaseData,
     [BaseData EXCEPT !.exists = FALSE],
     [BaseData EXCEPT !.readable = FALSE],
     [BaseData EXCEPT !.cols[1] = [name |-> "Date", kind |-> "text"]],
     [BaseData EXCEPT !.cols[1] = [name |-> "when", kind |-> "text"]],
     [BaseData EXCEPT !.cols[1] = [name |-> "when", kind |-> "date"]],
     [BaseData EXCEPT !.cols[1] = [name |-> "when", kind |-> "date"],
                      !.cols[3] = [name |-> "timestamp", kind |-> "num"]],
     [BaseData EXCEPT !.cols[1] = [name |-> "when", kind |-> "num"],
                      !.rows[1].cells[1] = Fin(1000), !.rows[2].cells[1] = Fin(2000)],
     [BaseData EXCEPT !.cols[2] = [name |-> "id", kind |-> "num"],
                      !.cols[3] = [name |-> "timestamp", kind |-> "num"]],
     [BaseData EXCEPT !.cols[3] = [name |-> "B", kind |-> "text"],
                      !.rows[1].cells[3] = Str, !.rows[2].cells[3] = Str]}

Scenarios ==
    (ConfigFiles \X {BaseData}) \cup (DataConfigs \X DataFiles)
        \cup (LayoutConfigs \X LayoutFiles)

\* main at the start of its try block (the command line is parsed), on a
\* configuration file and a data file.
MainInit ==
    /\ hpc = "idle" /\ hSeries = <<>> /\ hQ = <<19, 20>> /\ hResult = NaN
    /\ spc = "idle" /\ sAlpha = NaN /\ sCols = <<>> /\ sLib = <<>> /\ sRows = <<>>
    /\ fpc = "idle" /\ fCfg = <<>> /\ fCols = <<>> /\ fSeries = <<>>
    /\ fLib = <<>> /\ fRows = <<>>
    /\ rpc = "idle" /\ rPrices = <<>> /\ rType = "log" /\ rReturns = <<>>
    /\ rSummary = <<>>
    /\ mpc = "load_config" /\ mError = ""
    /\ \E s \in Scenarios : mCfgFile = s[1] /\ mDataFile = s[2]
    /\ mConfig = <<>> /\ mDirs = {} /\ mPrices = <<>> /\ mReturns = <<>>
    /\ mTables = NoTables /\ mFiles = {} /\ mPrinted = {} /\ mExit = -1
    /\ gpc = "idle" /\ gTables = <<>> /\ gRow = 0 /\ gLines = <<>>
    /\ npc = "idle" /\ nDirs = {} /\ nSource = {} /\ nTarget = {} /\ nTodo = {}
    /\ nMoved = <<>> /\ nReported = -1

SpecMain == MainInit /\ [][MainNext]_vars

---------------------------------------------------------------------------
(* C1 *)

\* The mean of a series of floats in plain floating-point arithmetic: a NaN
\* entry makes the mean NaN.
PlainMean(ls) ==
    IF \E i \in DOMAIN ls : IsNaN(ls[i].v) THEN NaN ELSE MeanSkipNa(ls)

\* The elements of the series strictly above its empirical q-quantile.
HillExceedances == TailData(hSeries, quantile(hSeries, hQ))
\* ln(x / u) of each of them.
HillLogs == LogExceedances(HillExceedances, quantile(hSeries, hQ))

\* C1: with fewer than 10 elements strictly above the q-quantile u
\* hill_tail_index returns NaN (9 included), and from 10 on the guard does not
\* fire and the result is 1 / mean(ln(x/u)) over all the qualifying elements.
C1_FloorAndPlainMean ==
    hpc = "done" =>
        /\ RunTotal(HillExceedances) < 10 => IsNaN(hResult)
        /\ RunTotal(HillExceedances) >= 10 => hResult = Recip(PlainMean(HillLogs))


---------------------------------------------------------------------------
(* C2, C3, C4 *)

\* C2: for every completed ADF test the recorded verdict is "Stationary" if
\* and only if the recorded p-value is strictly below alpha, and
\* "Non-stationary" otherwise (p-value equal to alpha included).
C2_AdfVerdict ==
    \A i \in DOMAIN sRows :
        ~sLib[i].adf.raised =>
            /\ sRows[i].ADF_p_value = sLib[i].adf.pval
            /\ sRows[i].ADF_Result =
                  (IF FLess(sRows[i].ADF_p_value, sAlpha) THEN "Stationary"
                   ELSE "Non-stationary")

\* A completed ADF test whose p-value equals alpha, recorded "Non-stationary".
C2_Witness ==
    \E i \in DOMAIN sRows :
        /\ ~sLib[i].adf.raised
        /\ sRows[i].ADF_p_value = sAlpha
        /\ sRows[i].ADF_Result = "Non-stationary"

\* C3: for every completed KPSS test the recorded verdict is "Stationary" if
\* and only if the recorded p-value is strictly above alpha, and
\* "Non-stationary" otherwise (p-value equal to alpha included).
C3_KpssVerdict ==
    \A i \in DOMAIN sRows :
        ~sLib[i].kpss.raised =>
            /\ sRows[i].KPSS_p_value = sLib[i].kpss.pval
            /\ sRows[i].KPSS_Result =
                  (IF FLess(sAlpha, sRows[i].KPSS_p_value) THEN "Stationary"
                   ELSE "Non-stationary")

\* A completed KPSS test whose p-value is above alpha, recorded "Stationary",
\* next to an ADF test with the same p-value recorded "Non-stationary".
C3_Witness ==
    \E i \in DOMAIN sRows :
        /\ ~sLib[i].kpss.raised
        /\ FLess(sAlpha, sRows[i].KPSS_p_value)
        /\ sRows[i].KPSS_Result = "Stationary"
        /\ sRows[i].ADF_p_value = sRows[i].KPSS_p_value
        /\ sRows[i].ADF_Result = "Non-stationary"

\* A routine fails when it raises or returns a NaN statistic or p-value.
TestFailed(out) == out.raised \/ IsNaN(out.stat) \/ IsNaN(out.pval)

\* C4: whenever a routine fails for a series (it raises, or it returns a NaN
\* statistic or p-value), that test is recorded as NaN, NaN, "Error", and
\* the failure is local: the other test of the series and the rows of the
\* other series are what they are without the failure.
C4_FailureIsError ==
    /\ \A i \in DOMAIN sRows :
          /\ TestFailed(sLib[i].adf) =>
                /\ IsNaN(sRows[i].ADF_Statistic)
                /\ IsNaN(sRows[i].ADF_p_value)
                /\ sRows[i].ADF_Result = "Error"
          /\ TestFailed(sLib[i].kpss) =>
                /\ IsNaN(sRows[i].KPSS_Statistic)
                /\ IsNaN(sRows[i].KPSS_p_value)
                /\ sRows[i].KPSS_Result = "Error"
          /\ sRows[i].Series = sCols[i]
          /\ ~TestFailed(sLib[i].adf) =>
                sRows[i].ADF_Result = AdfTest(sLib[i].adf, sAlpha).result
          /\ ~TestFailed(sLib[i].kpss) =>
                sRows[i].KPSS_Result = KpssTest(sLib[i].kpss, sAlpha).result
    /\ spc = "done" => Len(sRows) = Len(sCols)

---------------------------------------------------------------------------
(* C5 *)

\* A sub-test of stylized_facts fails numerically for column i: the library
\* routine raises, or the series has fewer than MinTail observations above
\* the configured quantile.
LbFailed(i) == fLib[i].lb.raised
ArchFailed(i) == fLib[i].arch.raised
HillFailed(i) ==
    RunTotal(TailData(fSeries[i], quantile(fSeries[i], fCfg.hill_threshold_quantile)))
        < MinTail

\* C5: a failure of one sub-test (Ljung-Box, ARCH-LM, Hill) for one series
\* gives NaN in that sub-test's fields and in no other: a sub-test that is
\* configured and whose routine returned has its fields hold the statistic
\* and the p-value (floats, those the routine returned), the Hill estimate is
\* a number when the series has its MinTail exceedances, the excess
\* kurtosis is a number from four observations on, and every series gets
\* its row.
C5_SubTestFailureIsLocal ==
    /\ \A i \in DOMAIN fRows :
          /\ fRows[i].Series = fCols[i]
          /\ LbFailed(i) =>
                IsNaN(fRows[i].Ljung_Box_Stat) /\ IsNaN(fRows[i].Ljung_Box_p_value)
          /\ ArchFailed(i) =>
                IsNaN(fRows[i].ARCH_LM_Stat) /\ IsNaN(fRows[i].ARCH_LM_p_value)
          /\ HillFailed(i) => IsNaN(fRows[i].Hill_Tail_Index)
          /\ ~LbFailed(i) /\ "lb_lags" \in fCfg.tests =>
                /\ fRows[i].Ljung_Box_Stat.k \in {"nan", "inf", "fin"}
                /\ fRows[i].Ljung_Box_p_value.k \in {"nan", "inf", "fin"}
                /\ fLib[i].lb.stat.k # "label" =>
                      /\ fRows[i].Ljung_Box_Stat = fLib[i].lb.stat
                      /\ fRows[i].Ljung_Box_p_value = fLib[i].lb.pval
          /\ ~ArchFailed(i) /\ "arch_lm_lags" \in fCfg.tests =>
                /\ fRows[i].ARCH_LM_Stat = fLib[i].arch.ret[1]
                /\ fRows[i].ARCH_LM_p_value = fLib[i].arch.ret[2]
          /\ ~HillFailed(i) => IsFinite(fRows[i].Hill_Tail_Index)
          /\ RunTotal(fSeries[i]) >= 4 => IsFinite(fRows[i].Excess_Kurtosis)
    /\ fpc = "done" => Len(fRows) = Len(fCols)

---------------------------------------------------------------------------
(* C6, C7, C8, C9 *)

\* The keys the pipeline reads from tests, tails and output_dirs.
RequiredTests == {"adf_alpha", "lb_lags", "arch_lm_lags"}
RequiredTails == {"hill_threshold_quantile"}
RequiredDirs == {"artifacts", "reports"}

\* The configuration file parses, and a required field is missing from it.
RequiredFieldMissing ==
    /\ mCfgFile.exists
    /\ mCfgFile.yaml = "ok"
    /\ \/ mCfgFile.doc.top # TopFields
       \/ ~(RequiredTests \subseteq mCfgFile.doc.tests)
       \/ ~(RequiredTails \subseteq mCfgFile.doc.tails)
       \/ ~(RequiredDirs \subseteq mCfgFile.doc.output_dirs)

\* C6: the configuration is validated eagerly.  When a required field is
\* missing (a top-level field, or a required key of tests, tails or
\* output_dirs), the run ends as a configuration error when the configuration
\* is loaded: it never gets past load_config, computes no result table, and
\* exits with a diagnostic and a non-zero status.
C6_EagerValidation ==
    RequiredFieldMissing =>
        /\ mpc \in {"load_config", "except", "exited"}
        /\ mTables.computed = {}
        /\ mpc = "exited" => mExit # 0 /\ "Error during EDA analysis" \in mPrinted

\* The terminal run-level errors of loading: the configuration file missing
\* or malformed, the data unreadable, no price column, the panel empty.
RunLevelErrors ==
    {"FileNotFoundError: configuration file not found",
     "ValueError: invalid YAML",
     "ValueError: failed to load configuration",
     "FileNotFoundError: data file not found",
     "ValueError: failed to load data",
     "ValueError: No price columns found!",
     "ValueError: No data found after selecting price columns",
     "ValueError: No data remaining after dropping NA values"}

\* C7: whenever a terminal run-level error occurs, nothing has yet been
\* written by the run: no file, and no output directory has been created.
C7_NothingWrittenBeforeLoading ==
    (mpc = "except" /\ mError \in RunLevelErrors) => mFiles = {} /\ mDirs = {}

EmptyAfterResample ==
    /\ mpc \notin {"load_config", "setup_output_dirs", "load_data"}
    /\ mConfig # <<>>
    /\ mConfig.resample # ""
    /\ ~load_data(mConfig, mDataFile).raised
    /\ load_data(mConfig, mDataFile).value.panel.rows = <<>>

\* C9: if the price panel is empty after resampling, the run aborts with a
\* terminal error and a non-zero exit, as when dropping the missing rows
\* empties it: no diagnostic table is computed or written from it.
C9_EmptyAfterResampleAborts ==
    EmptyAfterResample =>
        /\ mpc \in {"except", "exited"}
        /\ mTables.computed = {}
        /\ mFiles \cap {SummaryCsv, StationarityCsv, StylizedCsv} = {}
        /\ mpc = "exited" => mExit # 0

---------------------------------------------------------------------------
(* C11, C12, C13 *)

\* load_data has returned the price panel.
PanelLoaded == mPrices # <<>>

\* The configured date_column is set and is a column of the table.
DateDeclared ==
    /\ mConfig.date_column # ""
    /\ mConfig.date_column \in SeqToSet(ColumnNames(mDataFile))

\* The first column of the table can be interpreted as a timestamp.
FirstColumnParses == mDataFile.cols[1].kind # "text"

\* C11 as stated: the index of the loaded panel is the configured
\* date_column if it is set and present; else the first column whose name
\* contains 'date' or 'time', whatever parse_dates is; else, if parse_dates
\* is set, the first column read as a timestamp; else the ordinal index is
\* kept and the warning is printed.
C11_IndexPrecedence ==
    PanelLoaded =>
        LET names == ColumnNames(mDataFile)
            expected ==
                IF DateDeclared THEN mConfig.date_column
                ELSE IF DateCols(names) # <<>> THEN DateCols(names)[1]
                ELSE IF mConfig.parse_dates /\ FirstColumnParses THEN names[1]
                ELSE ""
        IN  /\ mPrices.index_name = expected
            /\ mPrices.index = (IF expected = "" THEN "ordinal" ELSE "datetime")
            /\ (expected = "" /\ ~DateDeclared) => "date warning" \in mPrinted

\* C11 amended: the index of the loaded panel is the configured date_column
\* if it is set and present; else, with parse_dates set, the first column
\* whose name contains 'date' or 'time', or without such a column the first
\* column if it reads as a timestamp; in every other case the ordinal index
\* is kept.  The warning is printed exactly when parse_dates is set, no
\* column is declared or date-named, and the first column does not read as a
\* timestamp.
C11_IndexPrecedenceUnderParseDates ==
    PanelLoaded =>
        LET names == ColumnNames(mDataFile)
            automatic == ~DateDeclared /\ mConfig.parse_dates
            expected ==
                IF DateDeclared THEN mConfig.date_column
                ELSE IF automatic /\ DateCols(names) # <<>> THEN DateCols(names)[1]
                ELSE IF automatic /\ FirstColumnParses THEN names[1]
                ELSE ""
        IN  /\ mPrices.index_name = expected
            /\ mPrices.index = (IF expected = "" THEN "ordinal" ELSE "datetime")
            /\ "date warning" \in mPrinted <=>
                  (automatic /\ DateCols(names) = <<>> /\ ~FirstColumnParses)

\* A panel indexed by the declared column of a table that also has a
\* date-named column.
C11_Witness ==
    /\ PanelLoaded
    /\ DateDeclared
    /\ DateCols(ColumnNames(mDataFile)) # <<>>
    /\ mConfig.date_column \notin SeqToSet(DateCols(ColumnNames(mDataFile)))
    /\ mPrices.index_name = mConfig.date_column

\* The resolved price-column set is empty whatever the index is: the include
\* list is removed entirely by the exclude list, or there is no include list
\* and every column of the table is non-numeric, pattern-named or excluded.
ResolvedSetEmpty ==
    \/ /\ mConfig.price_columns_include # <<>>
       /\ SeqToSet(mConfig.price_columns_include) \subseteq mConfig.price_columns_exclude
    \/ /\ mConfig.price_columns_include = <<>>
       /\ \A i \in DOMAIN mDataFile.cols :
             \/ mDataFile.cols[i].kind # "num"
             \/ NamePatterns(mDataFile.cols[i].name) # {}
             \/ mDataFile.cols[i].name \in mConfig.price_columns_exclude

\* load_data got as far as the price columns: it was called, the file was
\* read, and no declared or date-named column holds text that is no date.
TableRead ==
    /\ mpc \notin {"load_config", "setup_output_dirs", "load_data"}
    /\ mConfig # <<>>
    /\ mError # "OSError: makedirs"
    /\ mDataFile.exists /\ mDataFile.readable
    /\ \A i \in DOMAIN mDataFile.cols :
          mDataFile.cols[i].kind = "text" =>
              /\ mDataFile.cols[i].name # mConfig.date_column
              /\ mDataFile.cols[i].name \notin SeqToSet(DateCols(ColumnNames(mDataFile)))

\* C12: if the resolved price-column set is empty, load_data fails with the
\* error 'No price columns found!', the run goes to the except clause and
\* exits non-zero with the diagnostic, and no file has been written.
C12_NoPriceColumnsIsTerminal ==
    (TableRead /\ ResolvedSetEmpty) =>
        /\ mpc \in {"except", "exited"}
        /\ mError = "ValueError: No price columns found!"
        /\ mFiles = {}
        /\ mTables.computed = {}
        /\ mpc = "exited" => mExit = 1 /\ "Error during EDA analysis" \in mPrinted

\* A run ended by the error on a table that holds, besides the date column,
\* only the numeric columns id and timestamp, with no include list.
C12_Witness ==
    /\ mpc = "exited"
    /\ mExit = 1
    /\ mError = "ValueError: No price columns found!"
    /\ mConfig.price_columns_include = <<>>
    /\ mConfig.price_columns_exclude = {}
    /\ mDataFile.cols[2].name = "id"

\* C13: the columns of the loaded panel are the include list without the
\* excluded names, in its order, when there is an include list, and otherwise
\* the numeric columns of the table (the index column aside) whose name holds
\* none of the patterns, without the excluded names, in table order.  In
\* every case no panel column is excluded, every panel column is a numeric
\* column of the table, and no name occurs twice.
C13_PanelColumns ==
    PanelLoaded =>
        LET names == ColumnNames(mDataFile)
            numeric == {mDataFile.cols[i].name :
                          i \in {j \in DOMAIN mDataFile.cols : mDataFile.cols[j].kind = "num"}}
            expected ==
                IF mConfig.price_columns_include # <<>>
                THEN SelectSeq(mConfig.price_columns_include,
                               LAMBDA n : n \notin mConfig.price_columns_exclude)
                ELSE SelectSeq(names, LAMBDA n :
                        /\ n \in numeric
                        /\ n # mPrices.index_name
                        /\ NamePatterns(n) = {}
                        /\ n \notin mConfig.price_columns_exclude)
        IN  /\ mPrices.cols = expected
            /\ SeqToSet(mPrices.cols) \cap mConfig.price_columns_exclude = {}
            /\ SeqToSet(mPrices.cols) \subseteq numeric
            /\ \A i, j \in DOMAIN mPrices.cols : mPrices.cols[i] = mPrices.cols[j] => i = j

---------------------------------------------------------------------------
(* C14, C15 *)

\* The series names of the rows of a result table, in row order.
Keys(table) == [i \in DOMAIN table |-> table[i].Series]

\* C14: each of the three result tables, once computed, has exactly one row
\* per column of the return panel, keyed by the series name, in the order of
\* the columns, whatever tests failed for the individual series.
C14_OneRowPerSeries ==
    /\ "summary_stats" \in mTables.computed => Keys(mTables.summary_stats) = mPrices.cols
    /\ "stationarity" \in mTables.computed => Keys(mTables.stationarity) = mPrices.cols
    /\ "stylized_facts" \in mTables.computed =>
          Keys(mTables.stylized_facts) = mPrices.cols

\* The three tables of a two-column panel, the tests having failed for the
\* first series only.
C14_Witness ==
    /\ mTables.computed = {"summary_stats", "stationarity", "stylized_facts"}
    /\ Len(mPrices.cols) = 2
    /\ mTables.stationarity[1].ADF_Result = "Error"
    /\ mTables.stationarity[2].ADF_Result # "Error"
    /\ IsNaN(mTables.stylized_facts[1].Ljung_Box_Stat)
    /\ ~IsNaN(mTables.stylized_facts[2].Ljung_Box_Stat)

\* C15: summary_statistics never aborts the suite because of a series: when
\* a statistic is undefined for it, a failing Jarque-Bera computation
\* included, the row is still emitted with NaN fields, so the run gets past
\* summary_statistics with the table computed.
C15_SummaryNeverAborts ==
    /\ mError # "ValueError: jarque_bera"
    /\ mpc \in {"stationarity_tests", "stylized_facts", "create_plots"} =>
          "summary_stats" \in mTables.computed

---------------------------------------------------------------------------
(* C17 *)

\* The price panel given to compute_returns has N >= 2 rows, every price
\* present and strictly positive, and return_type is 'log'.
PositivePanel ==
    /\ Len(rPrices) >= 2
    /\ \A t \in DOMAIN rPrices : \A c \in DOMAIN rPrices[t] :
          IsFinite(rPrices[t][c]) /\ rPrices[t][c].v > 0
    /\ Lower(rType) = "log"

\* C17: for a price panel of N >= 2 rows, all prices present and strictly
\* positive, compute_returns with return_type 'log' returns N - 1 rows with
\* no missing value, and summary_statistics reports Observations = N - 1
\* for every column.
C17_LogReturnsRowCount ==
    /\ (rpc \in {"done", "summarized", "raised"} /\ PositivePanel) =>
          /\ Len(rReturns) = Len(rPrices) - 1
          /\ \A t \in DOMAIN rReturns : \A c \in DOMAIN rReturns[t] :
                ~IsNaN(rReturns[t][c])
          /\ rpc # "raised"
    /\ (rpc = "summarized" /\ PositivePanel) =>
          /\ Len(rSummary) = 2
          /\ \A c \in DOMAIN rSummary : rSummary[c].Observations = Len(rPrices) - 1

\* Three rows of positive prices, two log returns per column reported.
C17_Witness ==
    /\ rpc = "summarized"
    /\ PositivePanel
    /\ Len(rPrices) = MaxRows
    /\ rPrices[1][1] # rPrices[2][1]
    /\ rSummary[1].Observations = MaxRows - 1
    /\ rSummary[2].Observations = MaxRows - 1

---------------------------------------------------------------------------
(* C18 *)

\* The data file has the columns Date, A, B, all of A and B are selected and
\* the dates are read from Date.
BaseSelection ==
    /\ mDataFile.cols = BaseCols
    /\ mConfig.date_column = "Date"
    /\ mConfig.price_columns_include = <<>>
    /\ mConfig.price_columns_exclude = {}

\* The rows of the data file without a missing price, in file order.
CompleteRows ==
    SelectSeq([i \in DOMAIN mDataFile.rows |->
                  <<mDataFile.rows[i].cells[2], mDataFile.rows[i].cells[3]>>],
              LAMBDA row : ~IsNaN(row[1]) /\ ~IsNaN(row[2]))

\* C18: with dropna configured the panel load_data returns has no missing
\* value and is not empty (without resampling it is exactly the rows of the
\* table that have no missing selected price), and when every row has a
\* missing price load_data fails with 'No data remaining after dropping NA
\* values' and the run exits non-zero.
C18_DropNaPolicy ==
    /\ (PanelLoaded /\ mConfig.dropna) =>
          /\ \A t \in DOMAIN mPrices.rows : \A c \in DOMAIN mPrices.rows[t] :
                ~IsNaN(mPrices.rows[t][c])
          /\ mPrices.rows # <<>>
          /\ (BaseSelection /\ mConfig.resample = "") => mPrices.rows = CompleteRows
    /\ (TableRead /\ mConfig.dropna /\ BaseSelection
            /\ mDataFile.rows # <<>> /\ CompleteRows = <<>>) =>
          /\ mpc \in {"except", "exited"}
          /\ mError = "ValueError: No data remaining after dropping NA values"
          /\ mpc = "exited" => mExit = 1

\* A panel loaded under dropna that lost a row of the table.
C18_Witness ==
    /\ PanelLoaded
    /\ mConfig.dropna
    /\ mConfig.resample = ""
    /\ BaseSelection
    /\ mPrices.rows # <<>>
    /\ Len(mPrices.rows) < Len(mDataFile.rows)

---------------------------------------------------------------------------
(* C16 *)

\* The rows of a table are all written in a section, with the placeholder
\* in every field whose value is NaN or is not a number.
WrittenWithPlaceholders(section, table, fields) ==
    \A i \in DOMAIN table :
        \E l \in DOMAIN gLines :
            /\ gLines[l].section = section
            /\ gLines[l].Series = table[i].Series
            /\ \A j \in DOMAIN fields :
                   IsNa(table[i][fields[j]]) \/ ~IsIntOrFloat(table[i][fields[j]])
                       => gLines[l].cells[j] = NotAvailable

\* C16: generate_report never raises because of a cell value, and once the
\* report is written every row of the three tables is in it, with 'N/A' in
\* every numeric field whose value is NaN or non-numeric.
C16_CellNeverRaises ==
    /\ gpc # "ValueError"
    /\ gpc = "done" =>
          /\ WrittenWithPlaceholders("summary", gTables.summary_stats, SummaryFields)
          /\ WrittenWithPlaceholders("adf", gTables.stationarity, AdfFields)
          /\ WrittenWithPlaceholders("kpss", gTables.stationarity, KpssFields)
          /\ WrittenWithPlaceholders("stylized", gTables.stylized_facts,
                                     StylizedFields)

---------------------------------------------------------------------------
(* C19 *)

\* Every observation of the series is finite and strictly positive.
PositiveSeries == \A i \in DOMAIN hSeries : hSeries[i].v > 0

\* C19: on a series of finite, strictly positive observations with at least
\* 10 of them strictly above its q-quantile, hill_tail_index returns a
\* finite, strictly positive number.
C19_FinitePositive ==
    hpc = "done" /\ PositiveSeries /\ RunTotal(HillExceedances) >= 10
        => IsFinite(hResult) /\ hResult.v > 0

---------------------------------------------------------------------------
(* C21 *)

\* C21: the return panel is read-only once constructed: after each of
\* summary_statistics, stationarity_tests and stylized_facts has run, the
\* panel is still the one compute_returns built, so the next analyzer is
\* given the same panel.
C21_ReturnPanelReadOnly ==
    mpc \in {"stationarity_tests", "stylized_facts", "create_plots"} =>
        mReturns = compute_returns(mPrices.rows, mConfig.return_type)

\* The three analyzers have run on a panel that has rows.
C21_Witness ==
    /\ mpc = "create_plots"
    /\ mTables.computed = {"summary_stats", "stationarity", "stylized_facts"}
    /\ mReturns # <<>>

---------------------------------------------------------------------------
(* C22 *)

\* C22: on an arbitrary numeric series, a zero or negative threshold
\* included, hill_tail_index returns NaN or a finite, strictly positive
\* number: never zero, a negative number or an infinity.
C22_NaNOrPositive ==
    hpc = "done" => IsNaN(hResult) \/ (IsFinite(hResult) /\ hResult.v > 0)

---------------------------------------------------------------------------
(* C23 *)

\* The tabular artifacts and the report, whole or partial.
ResultFiles == {SummaryCsv, StationarityCsv, StylizedCsv, ReportMd, ReportMdPartial}

\* The ways create_plots can have raised the error the run ended with.
PlotFailures ==
    {r \in {create_plots(mPrices.cols, Len(mReturns), mConfig, failAt) :
                failAt \in {<<"", 0>>} \cup (SeqToSet(PlotNames) \X (1 .. MaxCols))} :
        r.raised /\ r.error = mError}

\* The run reached create_plots and create_plots raised: a plot name is
\* missing from config.plots, a figure could not be drawn or saved, or the
\* reports directory is not configured while a plot is switched on.
PlotsRaised ==
    /\ mpc \in {"except", "exited"}
    /\ mTables.computed = {"summary_stats", "stationarity", "stylized_facts"}
    /\ \/ mError \in {"KeyError: plots", "plotting failed"}
       \/ mError = "KeyError: reports"
            /\ create_plots(mPrices.cols, Len(mReturns), mConfig, <<"", 0>>).raised

\* C23: the tabular artifacts and the report are written only after
\* create_plots has returned: when create_plots raises, no tabular artifact
\* and no report is written, the process exits with status 1, and the files
\* of the run are the plot files saved before the failure.
C23_NothingWrittenWhenPlotsFail ==
    /\ mFiles \cap ResultFiles # {} =>
          mpc \notin {"load_config", "setup_output_dirs", "load_data",
                      "compute_returns", "summary_statistics",
                      "stationarity_tests", "stylized_facts", "create_plots"}
    /\ PlotsRaised =>
          /\ mFiles \cap ResultFiles = {}
          /\ mpc = "exited" => mExit = 1
          /\ \E r \in PlotFailures : mFiles = r.files

\* create_plots raised at the QQ plot of the second column after it had
\* saved prices.png and the QQ plot of the first column, and the process has
\* exited.
C23_Witness ==
    /\ mpc = "exited"
    /\ PlotsRaised
    /\ mError = "plotting failed"
    /\ <<"reports", "prices.png", "">> \in mFiles
    /\ <<"reports", "qq.png", mPrices.cols[1]>> \in mFiles
    /\ <<"reports", "qq.png", mPrices.cols[2]>> \notin mFiles
    /\ mExit = 1

---------------------------------------------------------------------------
(* C24 *)

\* n - 1 - floor(0.95 (n - 1)) for a series of n observations.
MostExceedances(n) == n - 1 - (19 * (n - 1)) \div 20

---------------------------------------------------------------------------
(* C25 *)

\* The return panel of one kind, written out from the prices.
ReturnsOfKind(prices, kind) ==
    DropNa([t \in DOMAIN prices |->
               [c \in DOMAIN prices[t] |->
                   IF t = 1 THEN NaN
                   ELSE IF kind = "log"
                        THEN LogReturn(prices[t][c], prices[t - 1][c])
                        ELSE SimpleReturn(prices[t][c], prices[t - 1][c])]])

\* return_type equals 'log' case-insensitively.
IsLogType(x) == x \in {"log", "LOG"}

\* The returns main holds once compute_returns has returned are log returns
\* if and only if return_type is 'log' case-insensitively, simple returns
\* otherwise.
ReturnsFollowType ==
    mpc = "summary_statistics" =>
        mReturns = ReturnsOfKind(mPrices.rows,
                      IF IsLogType(mConfig.return_type) THEN "log" ELSE "simple")

\* compute_returns has been called in this run: the panel is loaded and
\* main has moved on.
ReturnsCalled == mPrices # <<>> /\ mpc # "compute_returns"

\* C25 as stated: compute_returns computes log returns if and only if
\* return_type is 'log' case-insensitively, and every other value yields
\* simple returns without an error: no value of return_type is rejected.
C25_NeverRejected ==
    /\ ReturnsFollowType
    /\ ReturnsCalled => mError # "AttributeError: lower"

\* C25 amended: compute_returns computes log returns if and only if
\* return_type is 'log' case-insensitively, and every other string
\* ('simple', a misspelling, the empty string) yields simple returns
\* without an error: no string is rejected.  A value that is not a string
\* (a YAML null) makes return_type.lower() raise, and the run ends there.
C25_NoStringRejected ==
    /\ ReturnsFollowType
    /\ ReturnsCalled =>
          (mError = "AttributeError: lower" <=> mConfig.return_type \in NonStrings)

\* A misspelt return_type went through and gave simple returns, which
\* differ from the log returns of the same prices.
C25_Witness ==
    /\ mpc = "summary_statistics"
    /\ mConfig.return_type = "lg"
    /\ mReturns # <<>>
    /\ mReturns = ReturnsOfKind(mPrices.rows, "simple")
    /\ mReturns # ReturnsOfKind(mPrices.rows, "log")

---------------------------------------------------------------------------
(* C26 *)

\* No two of the files visited so far were given the same target name.
TargetsDistinct ==
    \A i, j \in DOMAIN nMoved : i # j => nMoved[i][2] # nMoved[j][2]

\* The count main prints is the number of files in the target directory.
CountIsExact == nReported >= 0 => nReported = Cardinality(nTarget)

\* C26: in rename_nf_residuals.main two distinct source names are never
\* mapped to the same target name, so no move collides with another, and the
\* count of moved files that is reported is the number of files that
\* reached the target directory.
C26_NoCollision == TargetsDistinct /\ CountIsExact

---------------------------------------------------------------------------
(* C10 *)

\* The rows of a panel of which every value is finite.
DropNonFinite(panel) ==
    SelectSeq(panel, LAMBDA row : \A c \in DOMAIN row : IsFinite(row[c]))

\* C10: the panel returned by compute_returns holds no missing and no
\* non-finite value: the first row and every row in which a return is NaN or
\* +-inf is dropped, and only those.
C10_ReturnsAllFinite ==
    rpc = "done" =>
        /\ \A t \in DOMAIN rReturns : \A c \in DOMAIN rReturns[t] :
              IsFinite(rReturns[t][c])
        /\ rReturns = DropNonFinite(RawReturns(rPrices, rType))

====
